---- MODULE Spec2Model ----
(***************************************************************************)
(* Model of the multi-pass label analysis pipeline of                      *)
(* src/app/analyzer: URLIngredientAnalyzer.analyze and the passes it       *)
(* composes (image fetch, Pass1 precheck, Pass2 gate 2A/2B, Pass3 extract, *)
(* Pass4 normalize/structure), with their retry loops.                     *)
(*                                                                         *)
(* Conventions.  A JSON / Python value is a record [t, s]: t is its type   *)
(* ("null", "str", "list"), s the characters of str(value).  Characters    *)
(* are one-character strings; "h" stands for a Hangul syllable (a word     *)
(* character that is not ASCII).  The two suitability words of the source  *)
(* are written SUITABLE and UNSUITABLE.                                    *)
(***************************************************************************)
EXTENDS Integers, Sequences, FiniteSets, TLC

VARIABLES
    cfg,            \* the analyzer's configuration fields (dataclass fields)
    callers,        \* the analyze calls of the scenario (worker threads)
    faultsLeft,     \* remote failures the environment may still inject
    flag,           \* analyzer._pass3_include_nutrition (instance attribute)
    pc,             \* per call: position in analyze
    image,          \* per call: the fetched payload (mime type, signature)
    attempt,        \* per call: loop variable of the running retry loop
    max_attempts,   \* per call: max_attempts of _call_pass3_with_retry
    last_error,     \* per call: last_error of the running retry loop
    nCalls,         \* per call: remote requests issued by the running loop
    nSleeps,        \* per call: time.sleep calls made by the running loop
    delay,          \* per call: argument of the loop's last time.sleep (ms)
    seen,           \* per call: error texts raised in the running loop
    made,           \* per call: the remote stages that were called at all
    locals,         \* per call: locals of the running pass
    pass2_result,   \* per call: analyze's pass2_result
    pass3_result,   \* per call: analyze's pass3_result
    result          \* per call: the record analyze returned

vars == <<cfg, callers, faultsLeft, flag, pc, image, attempt, max_attempts,
          last_error, nCalls, nSleeps, delay, seen, made, locals,
          pass2_result, pass3_result, result>>

-----------------------------------------------------------------------------
(* Values *)

Calls == {"A", "B"}

Null == [t |-> "null", s |-> <<>>]
Str(s) == [t |-> "str", s |-> s]
\* A non-empty JSON array where a string was expected; s is its str().
JsonList == [t |-> "list", s |-> <<"[", "'", "a", "'", "]">>]

IsNone(v) == v.t = "null"
\* bool(value)
Truthy(v) == v.t # "null" /\ v.s # <<>>

None == "None"
NoLocals == [kind |-> "none"]
NoResult == [kind |-> "none"]

Max(a, b) == IF a >= b THEN a ELSE b
Min(a, b) == IF a <= b THEN a ELSE b

-----------------------------------------------------------------------------
(* Configuration: fields of the URLIngredientAnalyzer dataclass *)

download_retries == 2
min_report_digits == 10
max_report_digits == 16
min_ingredients_len == 10
DefaultModelRetries == 3
Default429MaxAttempts == 6
\* Durations are in milliseconds: 0.8 s, 2.0 s, 30.0 s.
retry_backoff_sec == 800
Default429BaseSec == 2000
Default429MaxSec == 30000

DefaultConfig ==
    [model_retries |-> DefaultModelRetries,
     pass3_retry_on_429_max_attempts |-> Default429MaxAttempts,
     pass3_retry_on_429_base_sec |-> Default429BaseSec,
     pass3_retry_on_429_max_sec |-> Default429MaxSec,
     strict_mode |-> TRUE]

\* Other settings of the rate-limit curve: a base below the jitter range,
\* and a cap reached at the second attempt.
BackoffConfigs ==
    { [DefaultConfig EXCEPT !.pass3_retry_on_429_base_sec = 100],
      [DefaultConfig EXCEPT !.pass3_retry_on_429_max_sec = 3000] }

\* The configurations explored: the defaults, and retry budgets on either
\* side of the rate-limit ceiling, each with strict mode on and off.
Configs ==
    { [DefaultConfig EXCEPT !.model_retries = r,
                            !.pass3_retry_on_429_max_attempts = m,
                            !.strict_mode = s] :
        r \in {0, 1, DefaultModelRetries},
        m \in {1, 3, Default429MaxAttempts},
        s \in BOOLEAN } \cup BackoffConfigs

NoLimit == 0 - 1
\* Remote failures injected in the scenario with two concurrent calls.
MaxConcFaults == 1
\* Remote failures injected in the scenario with two calls in sequence.
MaxSeqFaults == 2

-----------------------------------------------------------------------------
(* Remote errors: the text of the exception and the retry signatures its    *)
(* lower-cased text contains.                                               *)

TransientSignatures ==
    {"429", "resource_exhausted", "503", "deadline", "timeout", "temporarily unavailable"}

ModelErrors ==
    { [text |-> "http_429: RESOURCE_EXHAUSTED", sigs |-> {"429", "resource_exhausted"}],
      [text |-> "http_503: unavailable", sigs |-> {"503"}],
      [text |-> "http_401: invalid api key", sigs |-> {}],
      [text |-> "JSON object not found in model response", sigs |-> {}] }

ErrorByText(text) == CHOOSE e \in ModelErrors : e.text = text

\* retryable = any(k in msg for k in (...))
retryable(e) == e.sigs \cap TransientSignatures # {}
\* is_429 = ("429" in msg) or ("resource_exhausted" in msg)
is_429(e) == e.sigs \cap {"429", "resource_exhausted"} # {}

FaultAllowed == faultsLeft # 0
UseFault == faultsLeft' = IF faultsLeft > 0 THEN faultsLeft - 1 ELSE faultsLeft

-----------------------------------------------------------------------------
(* Loop bookkeeping shared by the retry loops *)

\* Entering a retry loop: attempt = 0, nothing requested yet.
EnterLoop(c) ==
    /\ attempt' = [attempt EXCEPT ![c] = 0]
    /\ nCalls' = [nCalls EXCEPT ![c] = 0]
    /\ nSleeps' = [nSleeps EXCEPT ![c] = 0]
    /\ delay' = [delay EXCEPT ![c] = 0]
    /\ seen' = [seen EXCEPT ![c] = {}]
    /\ last_error' = [last_error EXCEPT ![c] = None]

\* The request succeeded: the loop returns and its locals are gone.
ReturnFromLoop(c) == EnterLoop(c)

\* One more request, failed, and the loop raises.
LastRequest(c, errs) ==
    /\ nCalls' = [nCalls EXCEPT ![c] = @ + 1]
    /\ seen' = [seen EXCEPT ![c] = @ \cup errs]
    /\ UNCHANGED <<attempt, nSleeps, delay>>

\* One more request, failed, followed by time.sleep(delay) and the next turn.
SleepAndRetry(c, errs, d) ==
    /\ nCalls' = [nCalls EXCEPT ![c] = @ + 1]
    /\ seen' = [seen EXCEPT ![c] = @ \cup errs]
    /\ nSleeps' = [nSleeps EXCEPT ![c] = @ + 1]
    /\ delay' = [delay EXCEPT ![c] = d]
    /\ attempt' = [attempt EXCEPT ![c] = @ + 1]

-----------------------------------------------------------------------------
(* _error_result *)

_error_result(err) ==
    [kind |-> "error",
     itemMnftrRptNo |-> Null,
     ingredients_text |-> Null,
     allergen_text |-> Null,
     nutrition_text |-> Null,
     note |-> <<"chatgpt analyze error", err>>,
     has_report_label |-> FALSE,
     product_name_in_image |-> Null,
     full_text |-> Null,
     has_ingredients |-> FALSE,
     quality_gate_pass |-> FALSE,
     quality_score |-> 0,
     quality_fail_reasons |-> <<"runtime_error:RuntimeError">>,
     ingredients_complete |-> "None",
     report_number_complete |-> "None",
     product_name_complete |-> "None",
     nutrition_complete |-> "None",
     ai_decision |-> "SKIP",
     ai_suitability |-> "UNSUITABLE",
     ai_decision_confidence |-> 0,
     ai_decision_reason |-> <<"chatgpt analyze error", err>>,
     source_model |-> "model"]

-----------------------------------------------------------------------------
(* Image fetch: _download_image, _decode_data_url *)

RETRYABLE_HTTP_STATUS == {408, 425, 429, 500, 502, 503, 504}

\* The payloads a fetch can deliver: declared MIME type and the format the
\* leading bytes announce.  _download_image never returns empty bytes.
Payloads ==
    { [mime |-> "image/png", sig |-> "png", empty |-> FALSE],
      [mime |-> "image/jpg", sig |-> "jpeg", empty |-> FALSE],
      [mime |-> "image/png", sig |-> "jpeg", empty |-> FALSE],
      [mime |-> "image/bmp", sig |-> "other", empty |-> FALSE] }

NoImage == [mime |-> "", sig |-> "other", empty |-> TRUE]

Images ==
    IF callers = Calls THEN { img \in Payloads : img.mime = "image/bmp" \/ img.sig = "png" }
    ELSE Payloads

\* What one session.get can end in: a body, an HTTP error status, or an
\* exception (timeout, oversize body, empty body).
GetOutcomes ==
    { [kind |-> "body", status |-> 200], [kind |-> "http", status |-> 503],
      [kind |-> "http", status |-> 404], [kind |-> "exc", status |-> 0] }

\* What a failed session.get leaves in last_error.
GetError(out) ==
    IF out.kind = "exc" THEN "request exception"
    ELSE IF out.status = 503 THEN "image download failed: http=503"
    ELSE "image download failed: http=404"

\* analyze, lines 936-938: the call starts and picks the branch of
\* _download_image by the form of the url.
Start(c) ==
    /\ c \in callers
    /\ pc[c] = "idle"
    /\ \E form \in {"http", "data"} :
         pc' = [pc EXCEPT ![c] = IF form = "data" THEN "decode" ELSE "download"]
    /\ EnterLoop(c)
    /\ UNCHANGED <<cfg, callers, faultsLeft, flag, image, max_attempts, made,
                   locals, pass2_result, pass3_result, result>>

\* _decode_data_url and the except clause of analyze.
DecodeDataUrl(c) ==
    /\ pc[c] = "decode"
    /\ \/ /\ \E img \in Images : image' = [image EXCEPT ![c] = img]
          /\ pc' = [pc EXCEPT ![c] = "pass1"]
          /\ UNCHANGED <<result, faultsLeft>>
       \/ /\ FaultAllowed /\ UseFault
          /\ result' = [result EXCEPT ![c] = _error_result("image_download_failed")]
          /\ pc' = [pc EXCEPT ![c] = "done"]
          /\ UNCHANGED image
    /\ UNCHANGED <<cfg, callers, flag, attempt, max_attempts, last_error, nCalls,
                   nSleeps, delay, seen, made, locals, pass2_result, pass3_result>>

\* One turn of the for loop of _download_image, and the except clause of
\* analyze when the loop gives up.
Download(c) ==
    /\ pc[c] = "download"
    /\ \E out \in GetOutcomes :
         IF out.kind = "body"
         THEN /\ \E img \in Images : image' = [image EXCEPT ![c] = img]
              /\ pc' = [pc EXCEPT ![c] = "pass1"]
              /\ ReturnFromLoop(c)
              /\ UNCHANGED <<result, faultsLeft>>
         ELSE /\ FaultAllowed /\ UseFault
              /\ last_error' = [last_error EXCEPT ![c] = GetError(out)]
              /\ IF \/ /\ out.kind = "http"
                       /\ out.status \in RETRYABLE_HTTP_STATUS
                       /\ attempt[c] < download_retries
                    \* otherwise the RuntimeError raised at line 436, like
                    \* any exception of the request, is caught by the
                    \* loop's own except clause (lines 458-463)
                    \/ attempt[c] < download_retries
                 THEN /\ SleepAndRetry(c, {}, retry_backoff_sec * (attempt[c] + 1))
                      /\ UNCHANGED <<pc, result, image>>
                 ELSE /\ LastRequest(c, {})
                      /\ result' = [result EXCEPT ![c] = _error_result("image_download_failed")]
                      /\ pc' = [pc EXCEPT ![c] = "done"]
                      /\ UNCHANGED image
    /\ UNCHANGED <<cfg, callers, flag, max_attempts, made, locals, pass2_result,
                   pass3_result>>

-----------------------------------------------------------------------------
(* Pass1: run_pass1_precheck *)

SUPPORTED_IMAGE_MIMES == {"image/png", "image/jpeg", "image/gif", "image/webp"}

\* str(mime_type or "").strip().lower() on the declared types explored.
StripLower(m) == IF m = None THEN "" ELSE IF m = " IMAGE/PNG " THEN "image/png" ELSE m

_normalize_mime(mime_type) ==
    IF StripLower(mime_type) = "image/jpg" THEN "image/jpeg" ELSE StripLower(mime_type)

_mime_matches_any(m, img) == ~img.empty

_mime_matches_signature(m, img) ==
    IF img.empty THEN FALSE
    ELSE IF m = "image/png" THEN img.sig = "png"
    ELSE IF m = "image/jpeg" THEN img.sig = "jpeg"
    ELSE IF m = "image/gif" THEN img.sig = "gif"
    \* a RIFF container that is not WebP has sig "riff"
    ELSE IF m = "image/webp" THEN img.sig = "webp"
    ELSE FALSE

precheck_reasons(img) ==
    LET normalized == _normalize_mime(img.mime)
        r1 == IF normalized \notin SUPPORTED_IMAGE_MIMES
              THEN <<"unsupported_image_format:" \o
                         (IF normalized = "" THEN "unknown" ELSE normalized)>>
              ELSE <<>>
        r2 == IF img.empty THEN r1 \o <<"empty_image_bytes">> ELSE r1
    IN  IF r2 = <<>> /\ ~_mime_matches_signature(normalized, img)
        THEN <<"mime_signature_mismatch">> ELSE r2

\* The url analyze was called with; run_pass1_precheck may be called
\* without one.
ImageUrl == "http://host/label"

precheck_as_error(img, image_url) ==
    [kind |-> "precheck", precheck_pass |-> precheck_reasons(img) = <<>>] @@
    _error_result("precheck_failed")

\* Lines 47-108.  reason is the failed checks joined by ",", followed by
\* " | url=<image_url>" when image_url is truthy.
run_pass1_precheck(img, image_url) ==
    LET reasons == precheck_reasons(img) IN
    IF reasons = <<>>
    THEN [kind |-> "precheck", precheck_pass |-> TRUE,
          itemMnftrRptNo |-> Null, quality_gate_pass |-> TRUE,
          quality_score |-> 0, quality_fail_reasons |-> <<>>,
          ai_decision |-> "READ", ai_suitability |-> "SUITABLE",
          ai_decision_reason |-> <<"precheck_ok">>, source_model |-> "model"]
    ELSE [kind |-> "precheck", precheck_pass |-> FALSE,
          itemMnftrRptNo |-> Null, quality_gate_pass |-> FALSE,
          quality_score |-> 0,
          quality_fail_reasons |-> [i \in 1..Len(reasons) |-> "precheck:" \o reasons[i]],
          ai_decision |-> "SKIP", ai_suitability |-> "UNSUITABLE",
          ai_decision_reason |->
              IF image_url # None /\ image_url # ""
              THEN reasons \o <<"url=" \o image_url>> ELSE reasons,
          source_model |-> "model"]

\* analyze, lines 942-944.
Pass1(c) ==
    /\ pc[c] = "pass1"
    /\ LET pass1_result == run_pass1_precheck(image[c], ImageUrl) IN
       IF ~pass1_result.precheck_pass
       THEN /\ result' = [result EXCEPT ![c] = pass1_result]
            /\ pc' = [pc EXCEPT ![c] = "done"]
       ELSE /\ pc' = [pc EXCEPT ![c] = "pass2a"]
            /\ UNCHANGED result
    /\ image' = [image EXCEPT ![c] = NoImage]
    /\ EnterLoop(c)
    /\ UNCHANGED <<cfg, callers, faultsLeft, flag, max_attempts, made, locals,
                   pass2_result, pass3_result>>

-----------------------------------------------------------------------------
(* Pass2 gate: run_pass2_gate *)

\* The keys of the 2A answer: the twelve checks' own keys and the legacy
\* keys their fallbacks read.
Keys2A ==
    {"is_clear_text", "is_blurry_or_lowres", "is_full_frame", "is_cropped_or_partial",
     "is_flat_undistorted", "is_wrinkled_or_distorted", "has_single_product",
     "key_fields_fully_visible", "no_glare_on_key_fields", "has_glare_on_key_fields",
     "no_object_occlusion_on_key_fields", "has_object_occlusion_on_key_fields",
     "no_any_text_occlusion_on_key_fields", "no_glare_overlap_on_key_text",
     "glare_overlap_on_key_text", "no_occlusion_overlap_on_key_text",
     "occlusion_overlap_on_key_text", "no_white_circle_overlay_on_key_fields",
     "no_wrinkle_fold_occlusion_on_key_fields"}

CheckKeys2A ==
    {"is_clear_text", "is_full_frame", "is_flat_undistorted", "has_single_product",
     "key_fields_fully_visible", "no_glare_on_key_fields",
     "no_object_occlusion_on_key_fields", "no_any_text_occlusion_on_key_fields",
     "no_glare_overlap_on_key_text", "no_occlusion_overlap_on_key_text",
     "no_white_circle_overlay_on_key_fields", "no_wrinkle_fold_occlusion_on_key_fields"}

Keys2B ==
    {"has_ingredients_section", "has_report_number_label", "has_product_name",
     "has_nutrition_section"}

\* A key of a parsed answer is "T" (a truthy value), "F" (a falsy value that
\* is not None) or "N" (absent or null: dict.get gives None).
Tri == {"T", "F", "N"}
isNone(v) == v = "N"
bool(v) == v = "T"

AllGood2A == [k \in Keys2A |-> IF k \in CheckKeys2A THEN "T" ELSE "N"]
Empty2A == [k \in Keys2A |-> "N"]

\* The twelve checks in the order run_pass2_gate tests them (lines 148-172).
CheckOrder2A ==
    <<"is_clear_text", "is_full_frame", "is_flat_undistorted", "has_single_product",
      "key_fields_fully_visible", "no_glare_on_key_fields",
      "no_object_occlusion_on_key_fields", "no_any_text_occlusion_on_key_fields",
      "no_glare_overlap_on_key_text", "no_occlusion_overlap_on_key_text",
      "no_white_circle_overlay_on_key_fields", "no_wrinkle_fold_occlusion_on_key_fields">>

\* The answer that denies the first m checks and affirms the others.
FirstDenied2A(m) ==
    [k \in Keys2A |-> IF k \in {CheckOrder2A[i] : i \in 1..m} THEN "F" ELSE AllGood2A[k]]

\* The 2A answers explored: the clean answer, the empty object, every answer
\* that differs from the clean one in one key, every answer that leaves one
\* check out and answers one legacy key, and the answers that deny the first
\* two to twelve checks.
Parsed2AInputs ==
    {AllGood2A, Empty2A}
    \cup { FirstDenied2A(m) : m \in 2..Len(CheckOrder2A) }
    \cup { [AllGood2A EXCEPT ![k] = v] : k \in Keys2A, v \in Tri }
    \cup { [AllGood2A EXCEPT ![k] = "N", ![l] = v] :
             k \in CheckKeys2A, l \in Keys2A \ CheckKeys2A, v \in {"T", "F"} }

Parsed2BInputs == [Keys2B -> {"T", "F"}] \cup {[k \in Keys2B |-> "N"]}

\* With two concurrent calls the interleavings are explored over the answers
\* that decide the path of a call; with one call, over all of them.
Concurrent == callers = Calls

Answers2A == IF Concurrent THEN {AllGood2A, Empty2A} ELSE Parsed2AInputs

Answers2B ==
    IF Concurrent
    THEN { p \in Parsed2BInputs :
             p["has_report_number_label"] = "T" /\ p["has_product_name"] = "T" }
    ELSE Parsed2BInputs

\* Lines 63-146: the twelve checks with their fallback chains.
Checks2A(p) ==
    LET is_clear_text ==
            IF isNone(p["is_clear_text"]) THEN ~bool(p["is_blurry_or_lowres"])
            ELSE bool(p["is_clear_text"])
        is_full_frame ==
            IF isNone(p["is_full_frame"]) THEN ~bool(p["is_cropped_or_partial"])
            ELSE bool(p["is_full_frame"])
        is_flat_undistorted ==
            IF isNone(p["is_flat_undistorted"]) THEN ~bool(p["is_wrinkled_or_distorted"])
            ELSE bool(p["is_flat_undistorted"])
        has_single_product == bool(p["has_single_product"])
        key_fields_fully_visible ==
            IF isNone(p["key_fields_fully_visible"]) THEN is_full_frame
            ELSE bool(p["key_fields_fully_visible"])
        no_glare_on_key_fields ==
            IF isNone(p["no_glare_on_key_fields"])
            THEN IF ~isNone(p["has_glare_on_key_fields"])
                 THEN ~bool(p["has_glare_on_key_fields"])
                 ELSE is_clear_text
            ELSE bool(p["no_glare_on_key_fields"])
        no_object_occlusion_on_key_fields ==
            IF isNone(p["no_object_occlusion_on_key_fields"])
            THEN IF ~isNone(p["has_object_occlusion_on_key_fields"])
                 THEN ~bool(p["has_object_occlusion_on_key_fields"])
                 ELSE key_fields_fully_visible
            ELSE bool(p["no_object_occlusion_on_key_fields"])
        no_any_text_occlusion_on_key_fields ==
            IF isNone(p["no_any_text_occlusion_on_key_fields"])
            THEN no_object_occlusion_on_key_fields /\ key_fields_fully_visible
            ELSE bool(p["no_any_text_occlusion_on_key_fields"])
        no_glare_overlap_on_key_text ==
            IF isNone(p["no_glare_overlap_on_key_text"])
            THEN IF ~isNone(p["glare_overlap_on_key_text"])
                 THEN ~bool(p["glare_overlap_on_key_text"])
                 ELSE no_glare_on_key_fields
            ELSE bool(p["no_glare_overlap_on_key_text"])
        no_occlusion_overlap_on_key_text ==
            IF isNone(p["no_occlusion_overlap_on_key_text"])
            THEN IF ~isNone(p["occlusion_overlap_on_key_text"])
                 THEN ~bool(p["occlusion_overlap_on_key_text"])
                 ELSE no_object_occlusion_on_key_fields
            ELSE bool(p["no_occlusion_overlap_on_key_text"])
        no_white_circle_overlay_on_key_fields ==
            IF isNone(p["no_white_circle_overlay_on_key_fields"])
            THEN no_object_occlusion_on_key_fields
            ELSE bool(p["no_white_circle_overlay_on_key_fields"])
        no_wrinkle_fold_occlusion_on_key_fields ==
            IF isNone(p["no_wrinkle_fold_occlusion_on_key_fields"])
            THEN is_flat_undistorted /\ key_fields_fully_visible
            ELSE bool(p["no_wrinkle_fold_occlusion_on_key_fields"])
    IN  [is_clear_text |-> is_clear_text,
         is_full_frame |-> is_full_frame,
         is_flat_undistorted |-> is_flat_undistorted,
         has_single_product |-> has_single_product,
         key_fields_fully_visible |-> key_fields_fully_visible,
         no_glare_on_key_fields |-> no_glare_on_key_fields,
         no_object_occlusion_on_key_fields |-> no_object_occlusion_on_key_fields,
         no_any_text_occlusion_on_key_fields |-> no_any_text_occlusion_on_key_fields,
         no_glare_overlap_on_key_text |-> no_glare_overlap_on_key_text,
         no_occlusion_overlap_on_key_text |-> no_occlusion_overlap_on_key_text,
         no_white_circle_overlay_on_key_fields |-> no_white_circle_overlay_on_key_fields,
         no_wrinkle_fold_occlusion_on_key_fields |-> no_wrinkle_fold_occlusion_on_key_fields]

AppendIf(seq, cond, x) == IF cond THEN Append(seq, x) ELSE seq

\* Lines 148-172: the fail list of 2A, in the order of the source.
FailChecks2A(k) ==
    LET f1 == AppendIf(<<>>, ~k.is_clear_text, "not_clear_text")
        f2 == AppendIf(f1, ~k.is_full_frame, "not_full_frame")
        f3 == AppendIf(f2, ~k.is_flat_undistorted, "not_flat_undistorted")
        f4 == AppendIf(f3, ~k.has_single_product, "not_single_product")
        f5 == AppendIf(f4, ~k.key_fields_fully_visible, "key_fields_not_fully_visible")
        f6 == AppendIf(f5, ~k.no_glare_on_key_fields, "glare_on_key_fields")
        f7 == AppendIf(f6, ~k.no_object_occlusion_on_key_fields, "object_occlusion_on_key_fields")
        f8 == AppendIf(f7, ~k.no_any_text_occlusion_on_key_fields, "any_text_occlusion_on_key_fields")
        f9 == AppendIf(f8, ~k.no_glare_overlap_on_key_text, "glare_overlap_on_key_text")
        f10 == AppendIf(f9, ~k.no_occlusion_overlap_on_key_text, "occlusion_overlap_on_key_text")
        f11 == AppendIf(f10, ~k.no_white_circle_overlay_on_key_fields, "white_circle_overlay_on_key_fields")
    IN  AppendIf(f11, ~k.no_wrinkle_fold_occlusion_on_key_fields, "wrinkle_fold_occlusion_on_key_fields")

\* Lines 175-201: the fail list after 2B (p2b is the 2B answer, or the empty
\* dict when 2B was not called).
FailChecks2B(fail2a, pass2a_ok, p2b) ==
    LET g0 == AppendIf(fail2a, ~pass2a_ok, "pass2b_skipped_by_pass2a_fail")
        g1 == AppendIf(g0, pass2a_ok /\ ~bool(p2b["has_ingredients_section"]), "missing_ingredients_section")
        g2 == AppendIf(g1, pass2a_ok /\ ~bool(p2b["has_report_number_label"]), "missing_report_label")
    IN  AppendIf(g2, pass2a_ok /\ ~bool(p2b["has_product_name"]), "missing_product_name")

Pass2AOkLax(fail_checks) == Len(fail_checks) <= 1

\* Line 175: 2B is called only when no 2A check failed.
Pass2AOk(fail_checks) == Len(fail_checks) = 0

Pass2DecisionLax(fail_checks) == IF Len(fail_checks) <= 1 THEN "READ" ELSE "SKIP"

\* Line 203.
Pass2Decision(fail_checks) == IF fail_checks = <<>> THEN "READ" ELSE "SKIP"

total_checks == 15

Pass2QualityScoreAll(fail_checks) ==
    Max(0, Min(100, ((total_checks - Len(fail_checks)) * 100) \div total_checks))

\* Lines 205-207.
Pass2QualityScore(fail_checks) ==
    LET counted == SelectSeq(fail_checks, LAMBDA x : x # "pass2b_skipped_by_pass2a_fail")
        passed_checks == total_checks - Len(counted)
    IN  Max(0, Min(100, (passed_checks * 100) \div total_checks))

\* Lines 173-288: the record run_pass2_gate returns when no call raised,
\* from the fail list of 2A and the 2B answer.
Pass2GateResult(fail2a, p2b) ==
    LET pass2a_ok == Pass2AOk(fail2a)
        fail_checks == FailChecks2B(fail2a, pass2a_ok, p2b)
        decision_raw == Pass2Decision(fail_checks)
    IN  [kind |-> "gate",
         quality_gate_pass |-> decision_raw = "READ",
         quality_score |-> Pass2QualityScore(fail_checks),
         quality_fail_reasons |->
             IF decision_raw # "READ" THEN Append(fail_checks, "ai_skip") ELSE fail_checks,
         fail_checks |-> fail_checks,
         has_ingredients_section |-> pass2a_ok /\ bool(p2b["has_ingredients_section"]),
         has_report_number_label |-> pass2a_ok /\ bool(p2b["has_report_number_label"]),
         has_product_name |-> pass2a_ok /\ bool(p2b["has_product_name"]),
         has_nutrition_section |-> pass2a_ok /\ bool(p2b["has_nutrition_section"]),
         pass2a_ok |-> pass2a_ok,
         pass2b_executed |-> pass2a_ok,
         ai_decision |-> decision_raw,
         ai_suitability |-> IF decision_raw = "READ" THEN "SUITABLE" ELSE "UNSUITABLE",
         ai_decision_confidence |-> 100,
         ai_decision_reason |-> IF fail_checks # <<>> THEN fail_checks ELSE <<"all_checks_passed">>,
         note |-> IF fail_checks # <<>> THEN fail_checks ELSE <<"all_checks_passed">>,
         raw_model_text |-> "[PASS2-A] [PASS2-B]",
         source_model |-> "model"]

\* core.py line 799: the raw text an error result carries is the last raw
\* model text when there is one, the error text otherwise.
fallback_raw(err, last_raw_text) == IF last_raw_text = None THEN err ELSE last_raw_text

Pass2ErrorAsSkip(err, last_raw_text) ==
    Pass2GateResult(<<"pass2_call_failed">>, [k \in Keys2B |-> "N"])

\* analyzer._error_result as run_pass2_gate returns it (line 291), with the
\* keys of a gate result that analyze and Pass4 read through dict.get.
Pass2ErrorResult(err, last_raw_text) ==
    LET e == _error_result(err) IN
    [kind |-> "error",
     quality_gate_pass |-> e.quality_gate_pass,
     quality_score |-> e.quality_score,
     quality_fail_reasons |-> e.quality_fail_reasons,
     fail_checks |-> <<>>,
     has_ingredients_section |-> FALSE,
     has_report_number_label |-> FALSE,
     has_product_name |-> FALSE,
     has_nutrition_section |-> FALSE,
     pass2a_ok |-> FALSE,
     pass2b_executed |-> FALSE,
     ai_decision |-> e.ai_decision,
     ai_suitability |-> e.ai_suitability,
     ai_decision_confidence |-> e.ai_decision_confidence,
     ai_decision_reason |-> e.ai_decision_reason,
     note |-> e.note,
     raw_model_text |-> fallback_raw(err, last_raw_text),
     source_model |-> e.source_model]

Pass2RetriesOnceMore(e, n) == n < cfg.model_retries + 1

\* _call_pass2_model_with_retry, line 35: whether a failed attempt is
\* followed by a sleep and another attempt.
Pass2Retries(e, n) == n < cfg.model_retries

Pass2DelayRateLimitOnly(e, n) ==
    LET d == retry_backoff_sec * (n + 1)
    IN  IF is_429(e) THEN (d * 25) \div 10 ELSE d

\* _call_pass2_model_with_retry, lines 36-39: the delay slept after failed
\* attempt n.
Pass2Delay(e, n) ==
    LET d == retry_backoff_sec * (n + 1)
    IN  IF retryable(e) THEN (d * 25) \div 10 ELSE d

Empty2B == [k \in Keys2B |-> "N"]

\* The checks before the 2A answer is parsed.
NoChecks2A == [k \in CheckKeys2A |-> FALSE]

\* One turn of the loop of _call_pass2_model_with_retry for stage 2a, and
\* what run_pass2_gate does with its outcome (lines 53-188, 289-291).
Pass2ACall(c) ==
    /\ pc[c] = "pass2a"
    /\ made' = [made EXCEPT ![c] = @ \cup {"2a"}]
    /\ \/ \E p2a \in Answers2A :
            LET fail_checks == FailChecks2A(Checks2A(p2a)) IN
            /\ ReturnFromLoop(c)
            /\ IF Pass2AOk(fail_checks)
               THEN /\ pc' = [pc EXCEPT ![c] = "pass2b_enter"]
                    /\ UNCHANGED pass2_result
               ELSE /\ pc' = [pc EXCEPT ![c] = "pass2_ret"]
                    /\ pass2_result' = [pass2_result EXCEPT ![c] =
                                          Pass2GateResult(fail_checks, Empty2B)]
            /\ locals' = [locals EXCEPT ![c] =
                            [kind |-> "pass2", parsed_pass2a |-> p2a,
                             checks |-> Checks2A(p2a),
                             fail_checks |-> fail_checks, parsed_pass2b |-> Empty2B,
                             failed |-> "none"]]
            /\ UNCHANGED faultsLeft
       \/ \E e \in ModelErrors :
            /\ FaultAllowed /\ UseFault
            /\ last_error' = [last_error EXCEPT ![c] = e.text]
            /\ IF Pass2Retries(e, attempt[c])
               THEN /\ SleepAndRetry(c, {e.text}, Pass2Delay(e, attempt[c]))
                    /\ UNCHANGED <<pc, pass2_result, locals>>
               ELSE /\ LastRequest(c, {e.text})
                    /\ pc' = [pc EXCEPT ![c] = "pass2_ret"]
                    /\ pass2_result' = [pass2_result EXCEPT ![c] = Pass2ErrorResult(e.text, None)]
                    /\ locals' = [locals EXCEPT ![c] =
                                    [kind |-> "pass2", parsed_pass2a |-> Empty2A,
                                     checks |-> NoChecks2A,
                                     fail_checks |-> <<>>, parsed_pass2b |-> Empty2B,
                                     failed |-> "2a"]]
    /\ UNCHANGED <<cfg, callers, flag, image, max_attempts, pass3_result, result>>

\* run_pass2_gate, line 180: the second retry loop is entered.
Pass2BEnter(c) ==
    /\ pc[c] = "pass2b_enter"
    /\ pc' = [pc EXCEPT ![c] = "pass2b"]
    /\ EnterLoop(c)
    /\ UNCHANGED <<cfg, callers, faultsLeft, flag, image, max_attempts, made,
                   locals, pass2_result, pass3_result, result>>

\* One turn of the loop of _call_pass2_model_with_retry for stage 2b, and
\* the rest of run_pass2_gate (lines 180-291).
Pass2BCall(c) ==
    /\ pc[c] = "pass2b"
    /\ made' = [made EXCEPT ![c] = @ \cup {"2b"}]
    /\ \/ \E p2b \in Answers2B :
            /\ ReturnFromLoop(c)
            /\ pc' = [pc EXCEPT ![c] = "pass2_ret"]
            /\ pass2_result' = [pass2_result EXCEPT ![c] =
                                  Pass2GateResult(locals[c].fail_checks, p2b)]
            /\ locals' = [locals EXCEPT ![c].parsed_pass2b = p2b]
            /\ UNCHANGED faultsLeft
       \/ \E e \in ModelErrors :
            /\ FaultAllowed /\ UseFault
            /\ last_error' = [last_error EXCEPT ![c] = e.text]
            /\ IF Pass2Retries(e, attempt[c])
               THEN /\ SleepAndRetry(c, {e.text}, Pass2Delay(e, attempt[c]))
                    /\ UNCHANGED <<pc, pass2_result, locals>>
               ELSE /\ LastRequest(c, {e.text})
                    /\ pc' = [pc EXCEPT ![c] = "pass2_ret"]
                    /\ pass2_result' = [pass2_result EXCEPT ![c] =
                                          Pass2ErrorResult(e.text, "raw_text_pass2a")]
                    /\ locals' = [locals EXCEPT ![c].failed = "2b"]
    /\ UNCHANGED <<cfg, callers, flag, image, max_attempts, pass3_result, result>>

-----------------------------------------------------------------------------
(* analyze between Pass2 and Pass3; analyze_pass3_from_bytes *)

Pass2ReadsAlways(p2) == TRUE

\* analyze, line 948: Pass3 runs only after a READ of Pass2.
Pass2Reads(p2) == p2.ai_decision = "READ"

FlagKept(p2, old) ==
    IF old # "unset" THEN old ELSE IF p2.has_nutrition_section THEN "true" ELSE "false"

\* analyze, line 950, and analyze_pass3_from_bytes, line 916: the value
\* setattr stores in _pass3_include_nutrition, whatever was there.
FlagWritten(p2, old) == IF p2.has_nutrition_section THEN "true" ELSE "false"

\* analyze, lines 947-957, and analyze_pass3_from_bytes, line 916: the
\* locals of run_pass2_gate are gone; on READ the nutrition switch is
\* written to the analyzer instance.
AnalyzeAfterPass2(c) ==
    /\ pc[c] = "pass2_ret"
    /\ locals' = [locals EXCEPT ![c] = NoLocals]
    /\ IF Pass2Reads(pass2_result[c])
       THEN /\ flag' = FlagWritten(pass2_result[c], flag)
            /\ pc' = [pc EXCEPT ![c] = "pass3_enter"]
       ELSE /\ pc' = [pc EXCEPT ![c] = "pass4"]
            /\ UNCHANGED flag
    /\ EnterLoop(c)
    /\ UNCHANGED <<cfg, callers, faultsLeft, image, max_attempts, made,
                   pass2_result, pass3_result, result>>

-----------------------------------------------------------------------------
(* Pass3: run_pass3_extract, _call_pass3_with_retry *)

\* Character sequences used in the answers of the model.
RptValid == <<"1", "2", "3", "4", "5", "6", "7", "8", "9", "0">>
RptRepeated == <<"1", "1", "1", "1", "1", "1", "1", "1", "1", "1">>
RptShort == <<"1", "2", "3", "4", "5">>
\* eighteen digits, as read when two numbers run together
RptLong == <<"9", "1", "2", "3", "4", "5", "6", "7", "8", "9", "0", "1", "2", "3", "4", "5", "6", "7">>
\* a target hint of seventeen digits, contained in RptLong
TargetLong == <<"1", "2", "3", "4", "5", "6", "7", "8", "9", "0", "1", "2", "3", "4", "5", "6", "7">>
TextWithNumber == <<"n", "o", " ", "2", "0", "2", "0", "1", "2", "3", "4", "5", "6", " ", "a">>
TextNoNumber == <<"l", "a", "b", "e", "l", " ", "t", "e", "x", "t">>
IngGood == <<"w", "h", "e", "a", "t", ",", " ", "s", "u", "g", "a", "r", ",", " ", "o", "i", "l">>
IngAllergen == <<"w", "h", "e", "a", "t", ",", " ", "s", "u", "g", "a", "r", ",", " ",
                 "k_u", "k_yu", " ", "k_ham", "k_yu">>
IngPlaceholder == <<"t", "e", "s", "t", ",", " ", "d", "u", "m", "m", "y", ",", " ", "o", "i", "l">>
IngShort == <<"o", "i", "l">>
\* "AAAA AAAA AAAA"
IngRepeated == <<"A", "A", "A", "A", " ", "A", "A", "A", "A", " ", "A", "A", "A", "A">>
NameGood == <<"c", "h", "o", "c", "o", " ", "p", "i", "e">>
NamePlaceholder == <<"x", "x", "x", "x">>
NutGood == <<"n", "u", "t", "r", "i", "t", "i", "o", "n", " ", "1", "0", "g">>
NutBad == <<"1", "0", "g">>

\* The ingredients-track answers explored (parsed JSON objects).
ParsedIngInputs ==
    { \* everything read
      [product_report_number |-> Str(RptValid), ingredients_text |-> Str(IngGood),
       allergen_text |-> Null, product_name_in_image |-> Str(NameGood),
       full_text |-> Str(TextWithNumber), complete |-> "T"],
      \* an allergen notice inside the ingredient text
      [product_report_number |-> Str(RptValid), ingredients_text |-> Str(IngAllergen),
       allergen_text |-> Null, product_name_in_image |-> Str(NameGood),
       full_text |-> Str(TextNoNumber), complete |-> "T"],
      \* no report number, one in the transcript
      [product_report_number |-> Null, ingredients_text |-> Str(IngGood),
       allergen_text |-> Null, product_name_in_image |-> Str(NameGood),
       full_text |-> Str(TextWithNumber), complete |-> "T"],
      \* no report number anywhere
      [product_report_number |-> Str(RptShort), ingredients_text |-> Str(IngGood),
       allergen_text |-> Str(IngShort), product_name_in_image |-> Str(NameGood),
       full_text |-> Str(TextNoNumber), complete |-> "T"],
      \* a report number of one repeated digit
      [product_report_number |-> Str(RptRepeated), ingredients_text |-> Str(IngGood),
       allergen_text |-> Null, product_name_in_image |-> Str(NameGood),
       full_text |-> Null, complete |-> "T"],
      \* a report number longer than any valid one
      [product_report_number |-> Str(RptLong), ingredients_text |-> Str(IngGood),
       allergen_text |-> Null, product_name_in_image |-> Str(NameGood),
       full_text |-> Null, complete |-> "T"],
      \* placeholder texts
      [product_report_number |-> Str(RptValid), ingredients_text |-> Str(IngPlaceholder),
       allergen_text |-> Null, product_name_in_image |-> Str(NamePlaceholder),
       full_text |-> Str(TextNoNumber), complete |-> "F"],
      \* a placeholder run of letters as ingredient text
      [product_report_number |-> Str(RptValid), ingredients_text |-> Str(IngRepeated),
       allergen_text |-> Null, product_name_in_image |-> Str(NameGood),
       full_text |-> Null, complete |-> "T"],
      \* no product name, everything else read
      [product_report_number |-> Str(RptValid), ingredients_text |-> Str(IngGood),
       allergen_text |-> Null, product_name_in_image |-> Null,
       full_text |-> Null, complete |-> "T"],
      \* no product name, ingredient text too short
      [product_report_number |-> Str(RptValid), ingredients_text |-> Str(IngShort),
       allergen_text |-> Null, product_name_in_image |-> Null,
       full_text |-> Null, complete |-> "F"],
      \* the transcript is a JSON array, not a string
      [product_report_number |-> Null, ingredients_text |-> Str(IngGood),
       allergen_text |-> Null, product_name_in_image |-> Str(NameGood),
       full_text |-> JsonList, complete |-> "T"],
      \* the empty object
      [product_report_number |-> Null, ingredients_text |-> Null,
       allergen_text |-> Null, product_name_in_image |-> Null,
       full_text |-> Null, complete |-> "N"] }

\* The nutrition-track answers explored.
ParsedNutInputs ==
    { [nutrition_text |-> Str(NutGood), full_text |-> Str(TextNoNumber), nutrition_complete |-> "T"],
      [nutrition_text |-> Str(NutBad), full_text |-> Null, nutrition_complete |-> "T"],
      [nutrition_text |-> Null, full_text |-> Null, nutrition_complete |-> "N"] }

EmptyNut == [nutrition_text |-> Null, full_text |-> Null, nutrition_complete |-> "N"]

AnswersIng ==
    IF Concurrent
    THEN { x \in ParsedIngInputs :
             x.ingredients_text = Str(IngGood) /\ x.product_report_number # Null }
    ELSE ParsedIngInputs

AnswersNut ==
    IF Concurrent
    THEN { x \in ParsedNutInputs : x.nutrition_text # Str(NutBad) }
    ELSE ParsedNutInputs

Pass3MaxAttemptsGeneric(e, max) == max

\* _call_pass3_with_retry, lines 30-36: max_attempts after an error.
Pass3MaxAttempts(e, max) ==
    IF is_429(e)
    THEN LET max_429_attempts == Max(max, cfg.pass3_retry_on_429_max_attempts)
         IN  IF max_429_attempts > max THEN max_429_attempts ELSE max
    ELSE max

\* _call_pass3_with_retry, line 38: whether a failed attempt is followed by
\* a sleep and another attempt.
Pass3Retries(e, n, max) == n < (max - 1) /\ retryable(e)

\* random.uniform(0.0, 0.8): the ends and the middle of the range.
JitterDraws == {0, 400, 800}

Pass3DelayUncapped(e, n, jitter) ==
    IF is_429(e)
    THEN cfg.pass3_retry_on_429_base_sec * (2 ^ n) + jitter
    ELSE (retry_backoff_sec * (n + 1) * 25) \div 10

\* _call_pass3_with_retry, lines 39-47: the delay slept after failed
\* attempt n.
Pass3Delay(e, n, jitter) ==
    IF is_429(e)
    THEN Min(cfg.pass3_retry_on_429_max_sec,
             cfg.pass3_retry_on_429_base_sec * (2 ^ n)) + jitter
    ELSE (retry_backoff_sec * (n + 1) * 25) \div 10

\* run_pass3_extract, lines 55-65, and _call_pass3_with_retry, lines 14-16:
\* the nutrition switch is read back from the analyzer instance (getattr
\* with default True) and the first retry loop is entered.
Pass3Enter(c) ==
    /\ pc[c] = "pass3_enter"
    /\ locals' = [locals EXCEPT ![c] =
                    [kind |-> "pass3", include_nutrition |-> flag # "false",
                     parsed_ing |-> CHOOSE x \in ParsedIngInputs : x.complete = "N",
                     failed |-> "none"]]
    /\ max_attempts' = [max_attempts EXCEPT ![c] = Max(1, cfg.model_retries + 1)]
    /\ pc' = [pc EXCEPT ![c] = "pass3_ing"]
    /\ EnterLoop(c)
    /\ UNCHANGED <<cfg, callers, faultsLeft, flag, image, made, pass2_result,
                   pass3_result, result>>

\* Lines 96-117: the record run_pass3_extract returns when no call raised.
Pass3Result(ing, nut, include_nutrition) ==
    [kind |-> "pass3",
     error |-> "",
     product_report_number |-> ing.product_report_number,
     ingredients_text |-> ing.ingredients_text,
     allergen_text |-> ing.allergen_text,
     nutrition_text |-> IF include_nutrition THEN nut.nutrition_text ELSE Null,
     product_name_in_image |-> ing.product_name_in_image,
     full_text |-> IF Truthy(ing.full_text) THEN ing.full_text ELSE nut.full_text,
     has_report_label |-> bool(ing.complete),
     ingredients_complete |-> bool(ing.complete),
     report_number_complete |-> bool(ing.complete),
     product_name_complete |-> bool(ing.complete),
     nutrition_complete |-> IF include_nutrition THEN bool(nut.nutrition_complete) ELSE FALSE,
     raw_nutrition_section |->
         IF include_nutrition THEN "raw_nut" ELSE "(skipped_by_pass2_no_nutrition)",
     source_model |-> "pass3_model"]

\* Lines 118-124: the record run_pass3_extract returns when a call raised.
Pass3ErrorResult(err) ==
    [kind |-> "pass3_error",
     error |-> err,
     product_report_number |-> Null,
     ingredients_text |-> Null,
     allergen_text |-> Null,
     nutrition_text |-> Null,
     product_name_in_image |-> Null,
     full_text |-> Null,
     has_report_label |-> FALSE,
     ingredients_complete |-> FALSE,
     report_number_complete |-> FALSE,
     product_name_complete |-> FALSE,
     nutrition_complete |-> FALSE,
     raw_nutrition_section |-> "",
     source_model |-> "pass3_model"]

\* What run_pass3_extract does when the nutrition track raises after the
\* ingredients track returned (lines 78-83, 118-124).
Pass3AfterNutritionFailure(ing, err) == Pass3ErrorResult(err)

\* One turn of the loop of _call_pass3_with_retry for the ingredients
\* track, and what run_pass3_extract does with its outcome.
Pass3IngCall(c) ==
    /\ pc[c] = "pass3_ing"
    /\ made' = [made EXCEPT ![c] = @ \cup {"ing"}]
    /\ \/ \E ing \in AnswersIng :
            /\ ReturnFromLoop(c)
            /\ IF locals[c].include_nutrition
               THEN /\ pc' = [pc EXCEPT ![c] = "pass3_nut_enter"]
                    /\ UNCHANGED pass3_result
               ELSE /\ pc' = [pc EXCEPT ![c] = "pass3_ret"]
                    /\ pass3_result' = [pass3_result EXCEPT ![c] =
                                          Pass3Result(ing, EmptyNut, FALSE)]
            /\ locals' = [locals EXCEPT ![c].parsed_ing = ing]
            /\ UNCHANGED <<faultsLeft, max_attempts>>
       \/ \E e \in ModelErrors :
            /\ FaultAllowed /\ UseFault
            /\ last_error' = [last_error EXCEPT ![c] = e.text]
            /\ max_attempts' = [max_attempts EXCEPT ![c] = Pass3MaxAttempts(e, @)]
            /\ IF Pass3Retries(e, attempt[c], Pass3MaxAttempts(e, max_attempts[c]))
               THEN /\ \E jitter \in JitterDraws :
                         SleepAndRetry(c, {e.text}, Pass3Delay(e, attempt[c], jitter))
                    /\ UNCHANGED <<pc, pass3_result, locals>>
               ELSE /\ LastRequest(c, {e.text})
                    /\ pc' = [pc EXCEPT ![c] = "pass3_ret"]
                    /\ pass3_result' = [pass3_result EXCEPT ![c] = Pass3ErrorResult(e.text)]
                    /\ locals' = [locals EXCEPT ![c].failed = "ing"]
    /\ UNCHANGED <<cfg, callers, flag, image, pass2_result, result>>

\* run_pass3_extract, line 78: the second retry loop is entered.
Pass3NutEnter(c) ==
    /\ pc[c] = "pass3_nut_enter"
    /\ pc' = [pc EXCEPT ![c] = "pass3_nut"]
    /\ max_attempts' = [max_attempts EXCEPT ![c] = Max(1, cfg.model_retries + 1)]
    /\ EnterLoop(c)
    /\ UNCHANGED <<cfg, callers, faultsLeft, flag, image, made, locals,
                   pass2_result, pass3_result, result>>

\* One turn of the loop of _call_pass3_with_retry for the nutrition track,
\* and the rest of run_pass3_extract.
Pass3NutCall(c) ==
    /\ pc[c] = "pass3_nut"
    /\ made' = [made EXCEPT ![c] = @ \cup {"nut"}]
    /\ \/ \E nut \in AnswersNut :
            /\ ReturnFromLoop(c)
            /\ pc' = [pc EXCEPT ![c] = "pass3_ret"]
            /\ pass3_result' = [pass3_result EXCEPT ![c] =
                                  Pass3Result(locals[c].parsed_ing, nut, TRUE)]
            /\ UNCHANGED <<faultsLeft, max_attempts, locals>>
       \/ \E e \in ModelErrors :
            /\ FaultAllowed /\ UseFault
            /\ last_error' = [last_error EXCEPT ![c] = e.text]
            /\ max_attempts' = [max_attempts EXCEPT ![c] = Pass3MaxAttempts(e, @)]
            /\ IF Pass3Retries(e, attempt[c], Pass3MaxAttempts(e, max_attempts[c]))
               THEN /\ \E jitter \in JitterDraws :
                         SleepAndRetry(c, {e.text}, Pass3Delay(e, attempt[c], jitter))
                    /\ UNCHANGED <<pc, pass3_result, locals>>
               ELSE /\ LastRequest(c, {e.text})
                    /\ pc' = [pc EXCEPT ![c] = "pass3_ret"]
                    /\ pass3_result' = [pass3_result EXCEPT ![c] =
                                          Pass3AfterNutritionFailure(locals[c].parsed_ing, e.text)]
                    /\ locals' = [locals EXCEPT ![c].failed = "nut"]
    /\ UNCHANGED <<cfg, callers, flag, image, pass2_result, result>>

StageAfterPass3Again(p3) == IF p3.kind = "pass3_error" THEN "pass3_enter" ELSE "pass4"

\* analyze, line 959: Stage-4 follows Pass3 whatever Pass3 returned.
StageAfterPass3(p3) == "pass4"

\* analyze, lines 952-959: run_pass3_extract has returned; its locals are
\* gone and Pass4 is entered.
AnalyzeAfterPass3(c) ==
    /\ pc[c] = "pass3_ret"
    /\ locals' = [locals EXCEPT ![c] = NoLocals]
    /\ pc' = [pc EXCEPT ![c] = StageAfterPass3(pass3_result[c])]
    /\ EnterLoop(c)
    /\ UNCHANGED <<cfg, callers, faultsLeft, flag, image, max_attempts, made,
                   pass2_result, pass3_result, result>>

-----------------------------------------------------------------------------
(* Text: characters and the str methods the source uses *)

Digits == {"0", "1", "2", "3", "4", "5", "6", "7", "8", "9"}
UpperSeq == <<"A", "B", "C", "D", "E", "F", "G", "H", "I", "J", "K", "L", "M",
              "N", "O", "P", "Q", "R", "S", "T", "U", "V", "W", "X", "Y", "Z">>
LowerSeq == <<"a", "b", "c", "d", "e", "f", "g", "h", "i", "j", "k", "l", "m",
              "n", "o", "p", "q", "r", "s", "t", "u", "v", "w", "x", "y", "z">>
Upper == {UpperSeq[i] : i \in 1..Len(UpperSeq)}
Lower == {LowerSeq[i] : i \in 1..Len(LowerSeq)}
\* Hangul syllables, named by their romanisation.
Hangul ==
    {"k_al", "k_le", "k_reu", "k_gi", "k_yu", "k_bal", "k_gen", "k_i",
     "k_je", "k_pum", "k_eun", "k_bon", "k_gat", "k_jo", "k_si", "k_seol",
     "k_gyo", "k_cha", "k_o", "k_yeom", "k_ham", "k_doe", "k_eo", "k_it",
     "k_po", "k_me", "k_mil", "k_dae", "k_du", "k_ho", "k_ttang", "k_kong",
     "k_jat", "k_gye", "k_ran", "k_nan", "k_ryu", "k_u", "k_to", "k_ma",
     "k_sae", "k_ge", "k_jing", "k_go", "k_deung", "k_gae", "k_gul",
     "k_jeon", "k_bok", "k_hong", "k_hap", "k_sung", "k_a", "k_dwae", "k_ji",
     "k_soe", "k_dak", "k_hwang", "k_san", "k_won", "k_jae", "k_ryo",
     "k_ryang", "k_yeong", "k_yang", "k_seong", "k_bun", "k_jeong", "k_bo",
     "k_na", "k_teu", "k_ryum", "k_tan", "k_su", "k_hwa", "k_mul", "k_dan",
     "k_baek", "k_jil", "k_bang", "k_ye", "k_saem", "k_peul", "k_ga", "k_ru",
     "k_tang", "k_hyo", "k_so", "k_seu", "k_te", "k_bi", "k_hyang"}
Whitespace == {" "}

\* \w of the re module on str patterns
IsWord(ch) == ch \in Digits \cup Upper \cup Lower \cup Hangul \cup {"_"}

\* str.lower() on one character
lower(ch) ==
    IF ch \in Upper
    THEN LowerSeq[CHOOSE i \in 1..Len(UpperSeq) : UpperSeq[i] = ch]
    ELSE ch

Lowered(s) == [i \in 1..Len(s) |-> lower(s[i])]

\* s[i:j] with 1-based inclusive bounds; empty when j < i
Slice(s, i, j) == IF j < i THEN <<>> ELSE SubSeq(s, i, j)

\* s[i:].startswith(w)
StartsAt(s, i, w) ==
    /\ i >= 1
    /\ i + Len(w) - 1 <= Len(s)
    /\ \A j \in 1..Len(w) : s[i + j - 1] = w[j]

\* str.find: the lowest 1-based index of w in s, 0 when absent
Find(s, w) ==
    IF \E i \in 1..(Len(s) + 1) : StartsAt(s, i, w)
    THEN CHOOSE i \in 1..(Len(s) + 1) :
           /\ StartsAt(s, i, w)
           /\ \A j \in 1..(i - 1) : ~StartsAt(s, j, w)
    ELSE 0

\* w in s
Contains(s, w) == Find(s, w) # 0

\* str.lstrip(chars), str.rstrip(chars), str.strip(chars)
RECURSIVE LStrip(_, _)
LStrip(s, chars) ==
    IF s # <<>> /\ Head(s) \in chars THEN LStrip(Tail(s), chars) ELSE s

RECURSIVE RStrip(_, _)
RStrip(s, chars) ==
    IF s # <<>> /\ s[Len(s)] \in chars THEN RStrip(SubSeq(s, 1, Len(s) - 1), chars) ELSE s

Strip(s, chars) == RStrip(LStrip(s, chars), chars)

\* str.strip()
strip(s) == Strip(s, Whitespace)

\* re.sub(r"[^0-9]", "", text)
OnlyDigits(s) == SelectSeq(s, LAMBDA ch : ch \in Digits)

-----------------------------------------------------------------------------
(* Report numbers: _normalize_report_no, _extract_report_no_from_text,      *)
(* _resolve_report_no                                                       *)

\* What a function yields when the call raises TypeError.
TypeError == [t |-> "TypeError", s |-> <<>>]
Raises(v) == v.t = "TypeError"

_normalize_report_no(value, min_digits, max_digits) ==
    IF IsNone(value) THEN Null
    ELSE LET text == strip(value.s)
             digits == OnlyDigits(text)
         IN  IF text = <<>> THEN Null
             ELSE IF Len(digits) < min_digits \/ Len(digits) > max_digits THEN Null
             ELSE Str(digits)

\* The number of digits of s from position i on
RECURSIVE DigitRun(_, _)
DigitRun(s, i) ==
    IF i <= Len(s) /\ s[i] \in Digits THEN 1 + DigitRun(s, i + 1) ELSE 0

\* re.search(r"\b\d{min,max}\b", text) matches at i: a boundary before i, a
\* run of min..max digits, a boundary after it.
ReportRunAt(s, i, min_digits, max_digits) ==
    LET n == DigitRun(s, i) IN
    /\ n >= min_digits
    /\ n <= max_digits
    /\ (i = 1 \/ ~IsWord(s[i - 1]))
    /\ (i + n > Len(s) \/ ~IsWord(s[i + n]))

_extract_report_no_from_text(text, min_digits, max_digits) ==
    IF ~Truthy(text) THEN Null
    ELSE IF text.t # "str" THEN TypeError
    ELSE LET s == text.s
             hits == {i \in 1..Len(s) : ReportRunAt(s, i, min_digits, max_digits)}
         IN  IF hits = {} THEN Null
             ELSE LET i == CHOOSE x \in hits : \A y \in hits : x <= y
                  IN  Str(SubSeq(s, i, i + DigitRun(s, i) - 1))

wide_max_digits == 24

TargetCorrectsAnyNumber(report_no, target_norm) ==
    Truthy(report_no) /\ Truthy(target_norm) /\ report_no # target_norm

\* Lines 738 and 753: the target replaces a different number containing it.
TargetCorrects(report_no, target_norm) ==
    /\ Truthy(report_no)
    /\ Truthy(target_norm)
    /\ report_no # target_norm
    /\ Contains(report_no.s, target_norm.s)

ResolveFinalNoTarget(report_no, target_norm) ==
    _normalize_report_no(report_no, min_report_digits, max_report_digits)

\* Lines 753-760: the second correction by the target and the final
\* normalisation.
ResolveFinal(report_no, target_norm) ==
    IF TargetCorrects(report_no, target_norm) THEN target_norm
    ELSE _normalize_report_no(report_no, min_report_digits, max_report_digits)

\* Lines 737-760, from the normalised model number and target.  The
\* TypeError of re.search leaves the function.
ResolveNormalized(report_no1, full_text, target_norm) ==
    IF TargetCorrects(report_no1, target_norm) THEN target_norm
    ELSE IF Truthy(report_no1) THEN ResolveFinal(report_no1, target_norm)
    ELSE IF Raises(_extract_report_no_from_text(full_text, min_report_digits, max_report_digits))
    THEN TypeError
    ELSE ResolveFinal(
             _normalize_report_no(
                 _extract_report_no_from_text(full_text, min_report_digits, max_report_digits),
                 min_report_digits, max_report_digits),
             target_norm)

_resolve_report_no(model_report_no, full_text, target_item_rpt_no) ==
    ResolveNormalized(
        _normalize_report_no(model_report_no, min_report_digits, wide_max_digits),
        full_text,
        _normalize_report_no(target_item_rpt_no, min_report_digits, wide_max_digits))

-----------------------------------------------------------------------------
(* Text heuristics of the analyzer: _looks_like_ingredients_text,           *)
(* _looks_like_nutrition_text, _split_allergen_notice                       *)

ContainsAny(s, words) == \E w \in words : Contains(s, w)

IngredientSeparators == {",", "U+00B7", "/", "U+FF0C"}
IngredientKeywords ==
    { <<"k_won", "k_jae", "k_ryo">>,
      <<"i", "n", "g", "r", "e", "d", "i", "e", "n", "t", "s">>,
      <<"k_ham", "k_ryang">> }

\* text is a str value or None
_looks_like_ingredients_text(text) ==
    LET value == strip(text.s) IN
    IF Len(value) < min_ingredients_len THEN FALSE
    ELSE \/ \E i \in 1..Len(value) : value[i] \in IngredientSeparators
         \/ ContainsAny(Lowered(value), IngredientKeywords)

min_nutrition_len == 8
NutritionKeywords ==
    { <<"k_yeong", "k_yang", "k_seong", "k_bun">>,
      <<"k_yeong", "k_yang", "k_jeong", "k_bo">>,
      <<"k_na", "k_teu", "k_ryum">>,
      <<"k_tan", "k_su", "k_hwa", "k_mul">>,
      <<"k_dan", "k_baek", "k_jil">>,
      <<"k_ji", "k_bang">>,
      <<"c", "a", "l", "o", "r", "i", "e", "s">>,
      <<"n", "u", "t", "r", "i", "t", "i", "o", "n">> }

_looks_like_nutrition_text(text) ==
    LET value == Lowered(strip(text.s)) IN
    IF Len(value) < min_nutrition_len THEN FALSE
    ELSE ContainsAny(value, NutritionKeywords)

cut_markers ==
    { <<"k_al", "k_le", "k_reu", "k_gi">>,
      <<"k_al", "k_le", "k_reu", "k_gi", " ", "k_yu", "k_bal">>,
      <<"k_al", "k_le", "k_reu", "k_gi", "k_yu", "k_bal">>,
      <<"k_al", "k_le", "k_reu", "k_gen">>,
      <<"k_i", " ", "k_je", "k_pum", "k_eun">>,
      <<"k_bon", " ", "k_je", "k_pum", "k_eun">>,
      <<"k_gat", "k_eun", " ", "k_je", "k_jo", "k_si", "k_seol">>,
      <<"k_gyo", "k_cha", "k_o", "k_yeom">>,
      <<"k_ham", "k_yu", "k_doe", "k_eo">>,
      <<"k_ham", "k_yu", "k_doe", "k_eo", "k_it">> }

allergen_set ==
    { <<"k_me", "k_mil">>,
      <<"k_mil">>,
      <<"k_dae", "k_du">>,
      <<"k_ho", "k_du">>,
      <<"k_ttang", "k_kong">>,
      <<"k_jat">>,
      <<"k_gye", "k_ran">>,
      <<"k_nan", "k_ryu">>,
      <<"k_u", "k_yu">>,
      <<"k_to", "k_ma", "k_to">>,
      <<"k_sae", "k_u">>,
      <<"k_ge">>,
      <<"k_o", "k_jing", "k_eo">>,
      <<"k_go", "k_deung", "k_eo">>,
      <<"k_jo", "k_gae", "k_ryu">>,
      <<"k_gul">>,
      <<"k_jeon", "k_bok">>,
      <<"k_hong", "k_hap">>,
      <<"k_bok", "k_sung", "k_a">>,
      <<"k_dwae", "k_ji", "k_go", "k_gi">>,
      <<"k_soe", "k_go", "k_gi">>,
      <<"k_dak", "k_go", "k_gi">>,
      <<"k_a", "k_hwang", "k_san", "k_ryu">> }

ContainsSuffixes ==
    { <<"k_ham", "k_yu">>,
      <<"k_po", "k_ham">> }

NoticeStripChars == {" ", ",", ".", ";", ":", "/"}

\* Positions reached from a position of P by skipping whitespace (\s*)
SkipWs(s, P) ==
    {q \in 1..(Len(s) + 1) : \E p \in P : p <= q /\ \A j \in p..(q - 1) : s[j] \in Whitespace}

\* Positions reached from a position of P by reading one allergen word
WordsFrom(s, P) ==
    UNION { {p + Len(w) : w \in {x \in allergen_set : StartsAt(s, p, x)}} : p \in P }

\* Positions reached from a position of P by reading one of [,/]
SepFrom(s, P) == {p + 1 : p \in {x \in P : x <= Len(s) /\ s[x] \in {",", "/"}}}

\* (?:\s*[,/]\s*(?:words))* applied to P, to a fixed point
RECURSIVE WordList(_, _, _)
WordList(s, P, fuel) ==
    LET more == P \cup WordsFrom(s, SkipWs(s, SepFrom(s, SkipWs(s, P)))) IN
    IF fuel = 0 \/ more = P THEN P ELSE WordList(s, more, fuel - 1)

\* \s*(?:suffix)\s*$ from position p
TailEndsAt(s, p) ==
    \E q \in SkipWs(s, {p}) : \E w \in ContainsSuffixes :
        /\ StartsAt(s, q, w)
        /\ \A j \in (q + Len(w))..Len(s) : s[j] \in Whitespace

\* tail_pattern matches with m.start() = st (1-based)
TailMatchAt(s, st) ==
    LET from == (IF st = 1 THEN {1} ELSE {})
                \cup (IF s[st] \in {",", "/"} THEN SkipWs(s, {st + 1}) ELSE {})
        afterWords == WordList(s, WordsFrom(s, from), Len(s))
    IN  \E p \in afterWords : TailEndsAt(s, p)

\* re.search(tail_pattern, value): m.start() (1-based), 0 when no match
TailSearch(s) ==
    LET hits == {st \in 1..Len(s) : TailMatchAt(s, st)} IN
    IF hits = {} THEN 0 ELSE CHOOSE x \in hits : \A y \in hits : x <= y

\* re.split(r"[seps]", s): the parts between single separators
RECURSIVE SplitOn(_, _, _, _)
SplitOn(s, seps, i, cur) ==
    IF i > Len(s) THEN <<cur>>
    ELSE IF s[i] \in seps THEN <<cur>> \o SplitOn(s, seps, i + 1, <<>>)
    ELSE SplitOn(s, seps, i + 1, Append(cur, s[i]))

\* sep.join(parts)
RECURSIVE Join(_, _)
Join(parts, sep) ==
    IF parts = <<>> THEN <<>>
    ELSE IF Len(parts) = 1 THEN parts[1]
    ELSE parts[1] \o sep \o Join(Tail(parts), sep)

\* re.sub(r"(w1|w2)", "", s) and, for one word, s.replace(w, "")
RECURSIVE RemoveAll(_, _, _)
RemoveAll(s, words, i) ==
    IF i > Len(s) THEN <<>>
    ELSE IF \E w \in words : w # <<>> /\ StartsAt(s, i, w)
         THEN LET w == CHOOSE x \in words : x # <<>> /\ StartsAt(s, i, x)
              IN  RemoveAll(s, words, i + Len(w))
         ELSE <<s[i]>> \o RemoveAll(s, words, i + 1)

TokenFateAnyNotice(part) ==
    LET token == strip(part)
        t == SelectSeq(token, LAMBDA ch : ch # " ")
    IN  IF token = <<>> THEN "drop"
        ELSE IF ContainsAny(t, ContainsSuffixes) THEN "removed"
        ELSE "kept"

\* Lines 361-377 for one part of the split: "drop" (empty), "removed"
\* (an allergen-only contains-token) or "kept".
TokenFate(part) ==
    LET token == strip(part)
        t == SelectSeq(token, LAMBDA ch : ch # " ")
        core == RemoveAll(t, ContainsSuffixes, 1)
        core_parts == SelectSeq(SplitOn(core, {"U+00B7", ","} \cup Whitespace, 1, <<>>),
                                LAMBDA x : x # <<>>)
    IN  IF token = <<>> THEN "drop"
        ELSE IF ContainsAny(t, ContainsSuffixes)
             THEN IF \E i \in 1..Len(t) : t[i] \in {"%", "(", ")"} \cup Digits THEN "kept"
                  ELSE IF core_parts # <<>>
                          /\ \A i \in 1..Len(core_parts) : core_parts[i] \in allergen_set
                       THEN "removed"
                       ELSE "kept"
             ELSE "kept"

StrippedTokens(parts, fate) ==
    LET chosen == SelectSeq(parts, LAMBDA x : TokenFate(x) = fate)
    IN  [i \in 1..Len(chosen) |-> strip(chosen[i])]

\* Lines 328-333: the lowest index of a cut marker (1-based), 0 when none
CutIndex(original) ==
    LET found == {Find(Lowered(original), Lowered(m)) : m \in cut_markers} \ {0}
    IN  IF found = {} THEN 0 ELSE CHOOSE x \in found : \A y \in found : x <= y

\* value[idx:].strip(" ,.;:/") of lines 336 and 349, "" when idx is 0
NoticeFrom(value, idx) ==
    IF idx # 0 THEN Strip(Slice(value, idx, Len(value)), NoticeStripChars) ELSE <<>>

\* value[:idx].rstrip(" ,.;:/") of lines 337 and 350, value when idx is 0
ValueBefore(value, idx) ==
    IF idx # 0 THEN RStrip(Slice(value, 1, idx - 1), NoticeStripChars) ELSE value

\* Lines 379-385: the pair returned, from the original text, the cleaned
\* text and the joined allergen bits.
SplitResult(original, cleaned, allergen1) ==
    << IF cleaned = <<>> THEN Null ELSE Str(cleaned),
       IF allergen1 = <<>> /\ cleaned # original
       THEN (IF Strip(RemoveAll(original, {cleaned}, 1), NoticeStripChars) = <<>> THEN Null
             ELSE Str(Strip(RemoveAll(original, {cleaned}, 1), NoticeStripChars)))
       ELSE IF allergen1 = <<>> THEN Null ELSE Str(allergen1) >>

\* Lines 352-381: the token loop over the parts of the remaining value.
SplitTokens(original, marker_removed, tail_removed, parts) ==
    SplitResult(
        original,
        Strip(Join(StrippedTokens(parts, "kept"), <<",", " ">>), {" ", ","}),
        Strip(Join(SelectSeq(<<marker_removed, tail_removed,
                               Strip(Join(StrippedTokens(parts, "removed"), <<",", " ">>),
                                     {" ", ","})>>,
                             LAMBDA x : x # <<>>),
                   <<" ", "|", " ">>),
              {" ", "|"}))

\* Lines 340-350: the trailing "words contain" notice, found at m_start.
SplitTail(original, marker_removed, value, m_start) ==
    SplitTokens(original, marker_removed, NoticeFrom(value, m_start),
                SplitOn(ValueBefore(value, m_start), {",", "/"}, 1, <<>>))

\* Lines 334-346: the cut at the marker, then the search of the tail.
SplitMarker(original, cut_idx) ==
    SplitTail(original, NoticeFrom(original, cut_idx), ValueBefore(original, cut_idx),
              TailSearch(ValueBefore(original, cut_idx)))

\* text is a str value or None; the result is the pair (cleaned
\* ingredients text, allergen text), each a str value or None.
_split_allergen_notice(text) ==
    IF strip(text.s) = <<>> THEN <<Null, Null>>
    ELSE SplitMarker(strip(text.s), CutIndex(strip(text.s)))

-----------------------------------------------------------------------------
(* Placeholder detection: _placeholder_reason *)

_PLACEHOLDER_KEYWORDS ==
    { <<"k_ye", "k_si">>,
      <<"k_saem", "k_peul">>,
      <<"d", "u", "m", "m", "y">>,
      <<"t", "e", "s", "t">>,
      <<"p", "l", "a", "c", "e", "h", "o", "l", "d", "e", "r">>,
      <<"a", "a", "a", "a">>,
      <<"x", "x", "x", "x">>,
      <<"y", "y", "y">>,
      <<"z", "z", "z">> }

\* The masking symbols of line 26: eight geometric shapes (named by code
\* point), "*", "^", "x" and "X".
MaskChars ==
    {"U+25CB", "U+25CF", "U+25A1", "U+25A0", "U+25B3", "U+25B2", "U+25BD",
     "U+25BC", "U+25C7", "U+25C6", "*", "^", "x", "X"}
RepeatSymbols == {"^", "*", "#", "=", "_", "-"}
Letters == Upper \cup Lower \cup Hangul

CountIn(s, chars) == Len(SelectSeq(s, LAMBDA ch : ch \in chars))

\* re.findall(r"[A-Za-z...]+", value): the maximal runs of letters
RECURSIVE WordTokens(_, _, _)
WordTokens(s, i, cur) ==
    IF i > Len(s) THEN (IF cur = <<>> THEN <<>> ELSE <<cur>>)
    ELSE IF s[i] \in Letters THEN WordTokens(s, i + 1, Append(cur, s[i]))
    ELSE (IF cur = <<>> THEN <<>> ELSE <<cur>>) \o WordTokens(s, i + 1, <<>>)

\* text is a str value or None; the result is the reason code without the
\* field prefix ("missing" for None or blank text), "" when the function
\* returns None.
_placeholder_reason(text, field) ==
    LET value == strip(text.s)
        low == Lowered(value)
        compact == SelectSeq(value, LAMBDA ch : ch \notin Whitespace)
        mask_chars == CountIn(compact, MaskChars)
        word_tokens == WordTokens(value, 1, <<>>)
        unique_tokens == {Lowered(word_tokens[i]) : i \in 1..Len(word_tokens)}
        symbol_cnt == Len(value) - CountIn(value, Letters \cup Digits \cup Whitespace)
    IN  IF value = <<>> THEN "missing"
        ELSE IF ContainsAny(low, _PLACEHOLDER_KEYWORDS) THEN "contains_placeholder_keyword"
        ELSE IF compact = <<>> THEN "empty"
        ELSE IF mask_chars > 0 /\ 100 * mask_chars >= 20 * Max(1, Len(compact)) THEN "masked_text"
        ELSE IF \E i \in 1..(Len(compact) - 3) :
                   \A j \in 1..3 : compact[i + j] = compact[i]
             THEN "repeated_chars"
        ELSE IF \E i \in 1..(Len(compact) - 2) :
                   \A j \in 0..2 : compact[i + j] \in RepeatSymbols
             THEN "repeated_symbols"
        ELSE IF field \in {"product_name", "ingredients"} /\ Len(word_tokens) = 0
             THEN "no_meaningful_tokens"
        ELSE IF field \in {"product_name", "ingredients"}
                /\ Cardinality(unique_tokens) <= 1 /\ Len(compact) >= 8
             THEN "low_token_diversity"
        ELSE IF 100 * symbol_cnt >= 45 * Max(1, Len(value)) THEN "high_symbol_ratio"
        ELSE ""

-----------------------------------------------------------------------------
(* Pass4: run_pass4_normalize *)

\* str(x).strip() or None, for x that is not None
StrStripOrNone(v) ==
    IF IsNone(v) THEN Null
    ELSE IF strip(v.s) = <<>> THEN Null ELSE Str(strip(v.s))

Pass4SkipRecordBare(p2) ==
    [_error_result("pass2_skip") EXCEPT !.kind = "pass2_skip", !.quality_fail_reasons = <<>>]

\* Lines 93-141: the record returned when Pass2 did not decide READ.
Pass4SkipRecord(p2) ==
    [kind |-> "pass2_skip",
     itemMnftrRptNo |-> Null,
     ingredients_text |-> Null,
     allergen_text |-> Null,
     nutrition_text |-> Null,
     note |-> p2.note,
     has_report_label |-> FALSE,
     product_name_in_image |-> Null,
     full_text |-> Null,
     has_ingredients |-> FALSE,
     quality_gate_pass |-> FALSE,
     quality_score |-> p2.quality_score,
     quality_fail_reasons |-> p2.quality_fail_reasons,
     ingredients_complete |-> "False",
     report_number_complete |-> "False",
     product_name_complete |-> "False",
     nutrition_complete |-> "False",
     ai_decision |-> "SKIP",
     ai_suitability |-> p2.ai_suitability,
     ai_decision_confidence |-> p2.ai_decision_confidence,
     ai_decision_reason |-> p2.ai_decision_reason,
     raw_model_text |-> p2.raw_model_text,
     source_model |-> "model",
     ingredient_items |-> <<>>,
     ingredient_items_reason |-> "pass2_skip",
     nutrition_items |-> <<>>,
     report_number_valid |-> FALSE,
     report_number_reason |-> "pass2_skip"]

\* Lines 143-160: the record returned when Pass3 is missing or failed.
Pass4Pass3ErrorRecord(err) ==
    [ingredient_items |-> <<>>,
     ingredient_items_reason |-> "pass3_error",
     nutrition_items |-> <<>>,
     report_number_valid |-> FALSE,
     report_number_reason |-> "pass3_error"] @@ _error_result(err)

PyBool(b) == IF b THEN "True" ELSE "False"

\* re.fullmatch(r"\d{10,16}", digits)
ValidReportFormat(digits) ==
    /\ Len(digits) >= 10
    /\ Len(digits) <= 16
    /\ \A i \in 1..Len(digits) : digits[i] \in Digits

\* re.fullmatch(r"(\d)\1{9,15}", digits)
RepeatedDigits(digits) ==
    /\ ValidReportFormat(digits)
    /\ \A i \in 1..Len(digits) : digits[i] = digits[1]

StrictCascadeInverted(strict_mode, quality_gate_pass) == strict_mode /\ quality_gate_pass

\* Line 212: whether the strict-mode cascade nulls the extracted fields.
StrictCascade(strict_mode, quality_gate_pass) == strict_mode /\ ~quality_gate_pass

\* Lines 240-268 and 352-401: the placeholder codes applied to the fields,
\* and the record returned when no structuring call is made.
Pass4Record(p2, p3, gate0, report_no, ingredients, allergen, product, nutrition, ph_product, ph_ingredients, ph_report) ==
    LET product_placeholder == ph_product
        ingredients_placeholder == ph_ingredients
        report_placeholder == ph_report
        any_placeholder == ph_product # "" \/ ph_ingredients # "" \/ ph_report # ""
        normalized_report_no == OnlyDigits(report_no.s)
        report_no2 == IF report_placeholder # "" THEN Null ELSE report_no
        ingredients2 == IF ingredients_placeholder # "" THEN Null ELSE ingredients
        product2 == IF product_placeholder # "" THEN Null ELSE product
        fails0 == AppendIf(p2.quality_fail_reasons, ~gate0, "missing_report_number")
        fails1 == AppendIf(fails0, product_placeholder # "", "product_name_" \o product_placeholder)
        fails2 == AppendIf(fails1, ingredients_placeholder # "",
                           "ingredients_" \o ingredients_placeholder)
        fails3 == AppendIf(fails2, report_placeholder # "", report_placeholder)
    IN  [kind |-> "pass4",
         itemMnftrRptNo |-> report_no2,
         ingredients_text |-> ingredients2,
         allergen_text |-> allergen,
         nutrition_text |-> nutrition,
         note |-> <<"pass3">>,
         has_report_label |-> p3.has_report_label,
         product_name_in_image |-> product2,
         full_text |-> p3.full_text,
         has_ingredients |-> Truthy(ingredients2),
         quality_gate_pass |-> gate0 /\ ~any_placeholder,
         quality_score |-> p2.quality_score,
         quality_fail_reasons |-> fails3,
         ingredients_complete |-> PyBool(p3.ingredients_complete /\ Truthy(ingredients2)),
         report_number_complete |-> PyBool(p3.report_number_complete /\ Truthy(report_no2)),
         product_name_complete |-> PyBool(p3.product_name_complete /\ Truthy(product2)),
         nutrition_complete |-> PyBool(p3.nutrition_complete /\ Truthy(nutrition)),
         ai_decision |-> IF gate0 /\ ~any_placeholder THEN "READ" ELSE "SKIP",
         ai_suitability |-> IF ~gate0 \/ any_placeholder THEN "UNSUITABLE" ELSE p2.ai_suitability,
         ai_decision_confidence |-> p2.ai_decision_confidence,
         ai_decision_reason |->
             p2.ai_decision_reason \o SubSeq(fails3, Len(p2.quality_fail_reasons) + 1, Len(fails3)),
         source_model |-> "model",
         ingredient_items |-> <<>>,
         ingredient_items_reason |-> "pass4_skipped_missing_required_fields",
         nutrition_items |-> <<>>,
         report_number_valid |->
             /\ normalized_report_no # <<>>
             /\ ValidReportFormat(normalized_report_no)
             /\ report_placeholder = "",
         report_number_reason |->
             IF report_placeholder # "" THEN report_placeholder
             ELSE IF normalized_report_no = <<>> THEN "missing_report_number"
             ELSE IF ~ValidReportFormat(normalized_report_no) THEN "invalid_report_number_format"
             ELSE "valid_report_number_format",
         pass4_ai_error |-> ""]

\* Lines 240-245: the placeholder codes of the three fields.
Pass4Placeholders(p2, p3, gate0, report_no, ingredients, allergen, product, nutrition) ==
    Pass4Record(p2, p3, gate0, report_no, ingredients, allergen, product, nutrition,
                _placeholder_reason(product, "product_name"),
                _placeholder_reason(ingredients, "ingredients"),
                IF OnlyDigits(report_no.s) # <<>> /\ RepeatedDigits(OnlyDigits(report_no.s))
                THEN "report_number_repeated_digits" ELSE "")

Pass4QualityGateOpen(report_no) == TRUE

\* Lines 205-210: quality_gate_pass before the placeholder checks.
Pass4QualityGate(report_no) == Truthy(report_no)

\* Lines 205-221: the gate on the report number and the strict-mode
\* cascade, which runs before the placeholder codes are computed.
Pass4Strict(p2, p3, report_no, cascade, ingredients, allergen, product, nutrition) ==
    Pass4Placeholders(p2, p3, Pass4QualityGate(report_no),
                      IF cascade THEN Null ELSE report_no,
                      IF cascade THEN Null ELSE ingredients,
                      IF cascade THEN Null ELSE allergen,
                      IF cascade THEN Null ELSE product,
                      IF cascade THEN Null ELSE nutrition)

\* Lines 173-190: the allergen text merged with the notice split off the
\* ingredient text, and the two plausibility checks.
Pass4Merge(p2, p3, report_no, strict_mode, split, allergen, product, nutrition) ==
    Pass4Strict(p2, p3, report_no, StrictCascade(strict_mode, Pass4QualityGate(report_no)),
                IF _looks_like_ingredients_text(split[1]) THEN split[1] ELSE Null,
                IF ~Truthy(allergen) THEN split[2]
                ELSE IF Truthy(split[2]) /\ ~Contains(allergen.s, split[2].s)
                     THEN Str(allergen.s \o <<" ", "|", " ">> \o split[2].s)
                     ELSE allergen,
                product,
                IF _looks_like_nutrition_text(nutrition) THEN nutrition ELSE Null)

\* Lines 162-401: the local part of the normal path, for a report number
\* that resolved to report_no (a str value or None).
Pass4Normalized(p2, p3, report_no, strict_mode) ==
    Pass4Merge(p2, p3, report_no, strict_mode,
               _split_allergen_notice(StrStripOrNone(p3.ingredients_text)),
               StrStripOrNone(p3.allergen_text),
               StrStripOrNone(p3.product_name_in_image),
               StrStripOrNone(p3.nutrition_text))

Pass4StructuresLax(rec) == Truthy(rec.itemMnftrRptNo) /\ Truthy(rec.ingredients_text)

\* Line 277: the structuring calls are made.
Pass4Structures(rec) ==
    Truthy(rec.itemMnftrRptNo) /\ Truthy(rec.ingredients_text) /\ Truthy(rec.product_name_in_image)

\* The target hints explored.
Targets == {Null, Str(RptValid), Str(TargetLong)}

\* The item lists a structuring answer can hold (parsed and normalised).
ItemLists == {<<>>, <<"item">>}

TargetHints == IF Concurrent THEN {Null} ELSE Targets

\* run_pass4_normalize up to line 277: the early returns, the local
\* normalisation, and the decision to structure.
Pass4Normalize(c) ==
    /\ pc[c] = "pass4"
    /\ \E target \in TargetHints :
         IF pass2_result[c].ai_decision # "READ"
         THEN /\ result' = [result EXCEPT ![c] = Pass4SkipRecord(pass2_result[c])]
              /\ pc' = [pc EXCEPT ![c] = "done"]
              /\ UNCHANGED locals
         ELSE IF pass3_result[c].kind = "none" \/ pass3_result[c].error # ""
         THEN /\ result' = [result EXCEPT ![c] =
                              Pass4Pass3ErrorRecord(
                                  IF pass3_result[c].kind = "none" THEN "pass3_missing"
                                  ELSE pass3_result[c].error)]
              /\ pc' = [pc EXCEPT ![c] = "done"]
              /\ UNCHANGED locals
         ELSE LET report_no == _resolve_report_no(pass3_result[c].product_report_number,
                                                  pass3_result[c].full_text, target)
              IN  IF Raises(report_no)
                  THEN \* the TypeError of re.search leaves run_pass4_normalize
                       \* and analyze: nothing catches it
                       /\ pc' = [pc EXCEPT ![c] = "raised"]
                       /\ UNCHANGED <<result, locals>>
                  ELSE LET rec == Pass4Normalized(pass2_result[c], pass3_result[c],
                                                  report_no, cfg.strict_mode)
                       IN  IF Pass4Structures(rec)
                           THEN /\ locals' = [locals EXCEPT ![c] = [kind |-> "pass4", rec |-> rec]]
                                /\ pc' = [pc EXCEPT ![c] = "pass4_ing"]
                                /\ UNCHANGED result
                           ELSE /\ result' = [result EXCEPT ![c] = rec]
                                /\ pc' = [pc EXCEPT ![c] = "done"]
                                /\ UNCHANGED locals
    /\ UNCHANGED <<cfg, callers, faultsLeft, flag, image, attempt, max_attempts,
                   last_error, nCalls, nSleeps, delay, seen, made, pass2_result, pass3_result>>

\* Lines 282 and 316: _call_text_model_openai is called once, outside any
\* retry loop; a failed request is the only request of the call.
Pass4Request(c) == nCalls' = [nCalls EXCEPT ![c] = @ + 1]

Pass4FailedRecordReset(rec, e) ==
    [rec EXCEPT !.pass4_ai_error = e.text,
                !.ingredient_items_reason = "pass4_structuring_failed:" \o e.text,
                !.quality_gate_pass = FALSE,
                !.ai_decision = "SKIP"]

\* Lines 346-348: the except clause of the structuring block sets the error
\* and the reason, and nothing else.
Pass4FailedRecord(rec, e) ==
    [rec EXCEPT !.pass4_ai_error = e.text,
                !.ingredient_items_reason = "pass4_structuring_failed:" \o e.text]

\* Lines 278-310 and 346-348: the ingredients structuring call (one
\* attempt, inside the try block).
Pass4IngCall(c) ==
    /\ pc[c] = "pass4_ing"
    /\ made' = [made EXCEPT ![c] = @ \cup {"p4ing"}]
    /\ \/ \E items \in ItemLists :
            LET rec == [locals[c].rec EXCEPT !.ingredient_items = items,
                                             !.ingredient_items_reason = "pass4_ingredients_structured"]
            IN  IF Truthy(rec.nutrition_text)
                THEN /\ locals' = [locals EXCEPT ![c].rec = rec]
                     /\ pc' = [pc EXCEPT ![c] = "pass4_nut"]
                     /\ UNCHANGED <<result, faultsLeft, nCalls>>
                ELSE /\ result' = [result EXCEPT ![c] = rec]
                     /\ locals' = [locals EXCEPT ![c] = NoLocals]
                     /\ pc' = [pc EXCEPT ![c] = "done"]
                     /\ UNCHANGED <<faultsLeft, nCalls>>
       \/ \E e \in ModelErrors :
            /\ FaultAllowed /\ UseFault
            /\ Pass4Request(c)
            /\ result' = [result EXCEPT ![c] =
                            Pass4FailedRecord(locals[c].rec, e)]
            /\ locals' = [locals EXCEPT ![c] = NoLocals]
            /\ pc' = [pc EXCEPT ![c] = "done"]
    /\ UNCHANGED <<cfg, callers, flag, image, attempt, max_attempts, last_error,
                   nSleeps, delay, seen, pass2_result, pass3_result>>

\* Lines 312-331 and 346-348: the nutrition structuring call.
Pass4NutCall(c) ==
    /\ pc[c] = "pass4_nut"
    /\ made' = [made EXCEPT ![c] = @ \cup {"p4nut"}]
    /\ \/ \E items \in ItemLists :
            /\ result' = [result EXCEPT ![c] = [locals[c].rec EXCEPT !.nutrition_items = items]]
            /\ UNCHANGED <<faultsLeft, nCalls>>
       \/ \E e \in ModelErrors :
            /\ FaultAllowed /\ UseFault
            /\ Pass4Request(c)
            /\ result' = [result EXCEPT ![c] =
                            Pass4FailedRecord(locals[c].rec, e)]
    /\ locals' = [locals EXCEPT ![c] = NoLocals]
    /\ pc' = [pc EXCEPT ![c] = "done"]
    /\ UNCHANGED <<cfg, callers, flag, image, attempt, max_attempts, last_error,
                   nSleeps, delay, seen, pass2_result, pass3_result>>

-----------------------------------------------------------------------------
(* Specifications *)

InitCalls ==
    /\ flag = "unset"
    /\ pc = [c \in Calls |-> "idle"]
    /\ image = [c \in Calls |-> NoImage]
    /\ attempt = [c \in Calls |-> 0]
    /\ max_attempts = [c \in Calls |-> 0]
    /\ last_error = [c \in Calls |-> None]
    /\ nCalls = [c \in Calls |-> 0]
    /\ nSleeps = [c \in Calls |-> 0]
    /\ delay = [c \in Calls |-> 0]
    /\ seen = [c \in Calls |-> {}]
    /\ made = [c \in Calls |-> {}]
    /\ locals = [c \in Calls |-> NoLocals]
    /\ pass2_result = [c \in Calls |-> NoResult]
    /\ pass3_result = [c \in Calls |-> NoResult]
    /\ result = [c \in Calls |-> NoResult]

\* One analyze call on a freshly constructed analyzer, any configuration, an
\* environment that may fail any remote request.
Init ==
    /\ cfg \in Configs
    /\ callers = {"A"}
    /\ faultsLeft = NoLimit
    /\ InitCalls

\* Two analyze calls running concurrently on one analyzer (the worker pool
\* of the callers), default configuration.
InitConc ==
    /\ cfg = DefaultConfig
    /\ callers = Calls
    /\ faultsLeft = MaxConcFaults
    /\ InitCalls

Step(c) ==
    \/ Start(c)
    \/ DecodeDataUrl(c)
    \/ Download(c)
    \/ Pass1(c)
    \/ Pass2ACall(c)
    \/ Pass2BEnter(c)
    \/ Pass2BCall(c)
    \/ AnalyzeAfterPass2(c)
    \/ Pass3Enter(c)
    \/ Pass3IngCall(c)
    \/ Pass3NutEnter(c)
    \/ Pass3NutCall(c)
    \/ AnalyzeAfterPass3(c)
    \/ Pass4Normalize(c)
    \/ Pass4IngCall(c)
    \/ Pass4NutCall(c)

Next == \E c \in Calls : Step(c)

Spec == Init /\ [][Next]_vars

SpecConc == InitConc /\ [][Next]_vars


\* Two analyze calls one after the other on an analyzer that earlier calls
\* have used: _pass3_include_nutrition holds whatever they left.
InitSeq ==
    /\ cfg = DefaultConfig
    /\ callers = Calls
    /\ faultsLeft = MaxSeqFaults
    /\ flag \in {"unset", "true", "false"}
    /\ pc = [c \in Calls |-> "idle"]
    /\ image = [c \in Calls |-> NoImage]
    /\ attempt = [c \in Calls |-> 0]
    /\ max_attempts = [c \in Calls |-> 0]
    /\ last_error = [c \in Calls |-> None]
    /\ nCalls = [c \in Calls |-> 0]
    /\ nSleeps = [c \in Calls |-> 0]
    /\ delay = [c \in Calls |-> 0]
    /\ seen = [c \in Calls |-> {}]
    /\ made = [c \in Calls |-> {}]
    /\ locals = [c \in Calls |-> NoLocals]
    /\ pass2_result = [c \in Calls |-> NoResult]
    /\ pass3_result = [c \in Calls |-> NoResult]
    /\ result = [c \in Calls |-> NoResult]

\* Call c is not running: it has not started, or it has returned or raised.
NotRunning(c) == pc[c] \in {"idle", "done", "raised"}

\* A step of one call while no other call is running.
NextSeq == \E c \in Calls : (\A d \in Calls \ {c} : NotRunning(d)) /\ Step(c)

SpecSeq == InitSeq /\ [][NextSeq]_vars

-----------------------------------------------------------------------------
(* _resolve_report_no on its own: the report numbers, transcripts and       *)
(* target hints it is called with, and one call of it                       *)

\* twelve digits that begin with the ten of RptValid
RptJoined == <<"1", "2", "3", "4", "5", "6", "7", "8", "9", "0", "1", "2">>
\* the ten digits of RptValid as printed on a label
RptFormatted == <<"1", "2", "3", "4", "5", "-", "6", "7", "8", "9", "0">>
\* fourteen digits: a spurious 0 after the first two
RptOcr == <<"1", "2", "0", "3", "4", "5", "6", "7", "8", "9", "1", "2", "3", "4">>
TargetOcr == <<"1", "2", "3", "4", "5", "6", "7", "8", "9", "1", "2", "3", "4">>
TextWithTarget == <<"n", "o", " ", "1", "2", "3", "4", "5", "6", "7", "8", "9", "0", "1", "2", " ", "a">>

ResolveNumbers ==
    {Null, Str(RptValid), Str(RptShort), Str(RptLong), Str(RptJoined), Str(RptFormatted), Str(RptOcr)}

ResolveTexts == {Null, Str(TextWithNumber), Str(TextNoNumber), Str(TextWithTarget), JsonList}

ResolveTargets == {Null, Str(RptValid), Str(TargetLong), Str(TargetOcr), Str(RptShort), Str(RptFormatted)}

\* A caller about to call _resolve_report_no(model_report_no, full_text,
\* target_item_rpt_no) on an analyzer with the default digit bounds.
InitResolve ==
    /\ cfg = DefaultConfig
    /\ callers = {"A"}
    /\ faultsLeft = 0
    /\ flag = "unset"
    /\ pc = [c \in Calls |-> IF c = "A" THEN "resolve" ELSE "idle"]
    /\ image = [c \in Calls |-> NoImage]
    /\ attempt = [c \in Calls |-> 0]
    /\ max_attempts = [c \in Calls |-> 0]
    /\ last_error = [c \in Calls |-> None]
    /\ nCalls = [c \in Calls |-> 0]
    /\ nSleeps = [c \in Calls |-> 0]
    /\ delay = [c \in Calls |-> 0]
    /\ seen = [c \in Calls |-> {}]
    /\ made = [c \in Calls |-> {}]
    /\ \E m \in ResolveNumbers, t \in ResolveTexts, g \in ResolveTargets :
         locals = [c \in Calls |->
                     IF c = "A"
                     THEN [kind |-> "resolve", model_report_no |-> m, full_text |-> t,
                           target_item_rpt_no |-> g]
                     ELSE NoLocals]
    /\ pass2_result = [c \in Calls |-> NoResult]
    /\ pass3_result = [c \in Calls |-> NoResult]
    /\ result = [c \in Calls |-> NoResult]

\* core.py lines 720-760: the call returns a value or raises.
ResolveCall(c) ==
    /\ pc[c] = "resolve"
    /\ LET value == _resolve_report_no(locals[c].model_report_no, locals[c].full_text,
                                       locals[c].target_item_rpt_no)
       IN  /\ result' = [result EXCEPT ![c] = [kind |-> "resolved", value |-> value]]
           /\ pc' = [pc EXCEPT ![c] = IF Raises(value) THEN "raised" ELSE "resolved"]
    /\ UNCHANGED <<cfg, callers, faultsLeft, flag, image, attempt, max_attempts, last_error,
                   nCalls, nSleeps, delay, seen, made, locals, pass2_result, pass3_result>>

NextResolve == \E c \in Calls : ResolveCall(c)

SpecResolve == InitResolve /\ [][NextResolve]_vars

-----------------------------------------------------------------------------
(* run_pass1_precheck as a function of its arguments *)

\* The declared types explored: the supported ones, the image/jpg alias, a
\* supported type in another case, unsupported types, and no type.
PrecheckMimes ==
    {None, "", "image/png", "image/jpeg", "image/jpg", "image/gif", "image/webp",
     "image/bmp", "application/octet-stream", " IMAGE/PNG "}

\* What the leading bytes announce; "riff" is a RIFF container without the
\* WEBP tag, "other" anything else.
Signatures == {"png", "jpeg", "gif", "webp", "riff", "other"}

PrecheckImages ==
    { [mime |-> m, sig |-> g, empty |-> FALSE] : m \in PrecheckMimes, g \in Signatures }
    \cup { [mime |-> m, sig |-> "other", empty |-> TRUE] : m \in PrecheckMimes }

\* A caller about to call run_pass1_precheck(analyzer, image_bytes,
\* mime_type, image_url).
InitPrecheck ==
    /\ cfg = DefaultConfig
    /\ callers = {"A"}
    /\ faultsLeft = 0
    /\ flag = "unset"
    /\ pc = [c \in Calls |-> IF c = "A" THEN "precheck" ELSE "idle"]
    /\ \E img \in PrecheckImages : image = [c \in Calls |-> IF c = "A" THEN img ELSE NoImage]
    /\ attempt = [c \in Calls |-> 0]
    /\ max_attempts = [c \in Calls |-> 0]
    /\ last_error = [c \in Calls |-> None]
    /\ nCalls = [c \in Calls |-> 0]
    /\ nSleeps = [c \in Calls |-> 0]
    /\ delay = [c \in Calls |-> 0]
    /\ seen = [c \in Calls |-> {}]
    /\ made = [c \in Calls |-> {}]
    /\ \E u \in {None, ImageUrl} :
         locals = [c \in Calls |->
                     IF c = "A" THEN [kind |-> "precheck", image_url |-> u] ELSE NoLocals]
    /\ pass2_result = [c \in Calls |-> NoResult]
    /\ pass3_result = [c \in Calls |-> NoResult]
    /\ result = [c \in Calls |-> NoResult]

\* pass1_precheck.py lines 30-108: the call returns its record.
PrecheckCall(c) ==
    /\ pc[c] = "precheck"
    /\ result' = [result EXCEPT ![c] = run_pass1_precheck(image[c], locals[c].image_url)]
    /\ pc' = [pc EXCEPT ![c] = "prechecked"]
    /\ UNCHANGED <<cfg, callers, faultsLeft, flag, image, attempt, max_attempts, last_error,
                   nCalls, nSleeps, delay, seen, made, locals, pass2_result, pass3_result>>

NextPrecheck == \E c \in Calls : PrecheckCall(c)

SpecPrecheck == InitPrecheck /\ [][NextPrecheck]_vars

-----------------------------------------------------------------------------
(* _split_allergen_notice as a function of its argument *)

\* "밀가루, 설탕, 대두 함유"
ExampleSeparated ==
    <<"k_mil", "k_ga", "k_ru", ",", " ", "k_seol", "k_tang", ",", " ",
      "k_dae", "k_du", " ", "k_ham", "k_yu">>
\* "효소스테비아대두함유향료"
ExampleJoined ==
    <<"k_hyo", "k_so", "k_seu", "k_te", "k_bi", "k_a", "k_dae", "k_du",
      "k_ham", "k_yu", "k_hyang", "k_ryo">>

\* The tokens the texts are made of: two ingredients, an allergen word,
\* contains-notices of allergen words only (spaced, joined, with a middle
\* dot), contains-tokens with a percentage, a parenthesis or an ingredient
\* word, the joined example, and a notice marker.
SplitTokenSamples ==
    { <<"k_mil", "k_ga", "k_ru">>,
      <<"k_seol", "k_tang">>,
      <<"k_dae", "k_du">>,
      <<"k_dae", "k_du", " ", "k_ham", "k_yu">>,
      <<"k_u", "k_yu", "k_po", "k_ham">>,
      <<"k_dae", "k_du", "U+00B7", "k_u", "k_yu", " ", "k_ham", "k_yu">>,
      <<"k_dae", "k_du", " ", "5", "%", " ", "k_ham", "k_yu">>,
      <<"k_dae", "k_du", "(", "k_ham", "k_yu", ")">>,
      <<"k_seol", "k_tang", " ", "k_ham", "k_yu">>,
      ExampleJoined,
      <<"k_gyo", "k_cha", "k_o", "k_yeom">> }

\* The spacings around a separator.
SplitSeparators == { <<",">>, <<",", " ">>, <<" ", "/", " ">> }

\* The texts explored: one token, two tokens around a separator, and the
\* two ingredients followed by a third token.
SplitTexts ==
    SplitTokenSamples
    \cup { a \o sep \o b : a \in SplitTokenSamples, b \in SplitTokenSamples,
                           sep \in SplitSeparators }
    \cup { <<"k_mil", "k_ga", "k_ru", ",", " ", "k_seol", "k_tang">> \o sep \o b :
             b \in SplitTokenSamples, sep \in SplitSeparators }

\* A caller about to call analyzer._split_allergen_notice(text).
InitSplit ==
    /\ cfg = DefaultConfig
    /\ callers = {"A"}
    /\ faultsLeft = 0
    /\ flag = "unset"
    /\ pc = [c \in Calls |-> IF c = "A" THEN "split" ELSE "idle"]
    /\ image = [c \in Calls |-> NoImage]
    /\ attempt = [c \in Calls |-> 0]
    /\ max_attempts = [c \in Calls |-> 0]
    /\ last_error = [c \in Calls |-> None]
    /\ nCalls = [c \in Calls |-> 0]
    /\ nSleeps = [c \in Calls |-> 0]
    /\ delay = [c \in Calls |-> 0]
    /\ seen = [c \in Calls |-> {}]
    /\ made = [c \in Calls |-> {}]
    /\ \E text \in SplitTexts :
         locals = [c \in Calls |->
                     IF c = "A" THEN [kind |-> "split", text |-> Str(text)] ELSE NoLocals]
    /\ pass2_result = [c \in Calls |-> NoResult]
    /\ pass3_result = [c \in Calls |-> NoResult]
    /\ result = [c \in Calls |-> NoResult]

\* core.py lines 303-385: the call returns its pair.
SplitCall(c) ==
    /\ pc[c] = "split"
    /\ result' = [result EXCEPT ![c] =
                    [kind |-> "split",
                     cleaned |-> _split_allergen_notice(locals[c].text)[1],
                     allergen_text |-> _split_allergen_notice(locals[c].text)[2]]]
    /\ pc' = [pc EXCEPT ![c] = "split_done"]
    /\ UNCHANGED <<cfg, callers, faultsLeft, flag, image, attempt, max_attempts, last_error,
                   nCalls, nSleeps, delay, seen, made, locals, pass2_result, pass3_result>>

NextSplit == \E c \in Calls : SplitCall(c)

SpecSplit == InitSplit /\ [][NextSplit]_vars

-----------------------------------------------------------------------------
(* Properties *)

Done(c) == pc[c] = "done"

\* Pass2 has returned for call c.
Pass2Returned(c) == pass2_result[c].kind # "none"

\* The remote calls that belong to Pass3 and Pass4.
LaterModelCalls == {"ing", "nut", "p4ing", "p4nut"}

\* C1: whenever the Pass2 gate result has an ai_decision other than READ (a
\* gate SKIP or a Pass2 error result), no Pass3 model call and no Pass4
\* structuring call is ever made, and the record analyze returns has
\* itemMnftrRptNo, ingredients_text, allergen_text, nutrition_text,
\* product_name_in_image and full_text null, has_ingredients false, the four
\* completeness flags false, quality_gate_pass false, ai_decision SKIP, and
\* ingredient_items and nutrition_items empty.
C1_SkipGatesLaterPasses ==
    \A c \in Calls :
        (Pass2Returned(c) /\ pass2_result[c].ai_decision # "READ") =>
            /\ made[c] \cap LaterModelCalls = {}
            /\ pc[c] \in {"pass2_ret", "pass4", "done"}
            /\ Done(c) =>
                 /\ result[c].itemMnftrRptNo = Null
                 /\ result[c].ingredients_text = Null
                 /\ result[c].allergen_text = Null
                 /\ result[c].nutrition_text = Null
                 /\ result[c].product_name_in_image = Null
                 /\ result[c].full_text = Null
                 /\ result[c].has_ingredients = FALSE
                 /\ result[c].ingredients_complete = "False"
                 /\ result[c].report_number_complete = "False"
                 /\ result[c].product_name_complete = "False"
                 /\ result[c].nutrition_complete = "False"
                 /\ result[c].quality_gate_pass = FALSE
                 /\ result[c].ai_decision = "SKIP"
                 /\ result[c].ingredient_items = <<>>
                 /\ result[c].nutrition_items = <<>>

\* A call whose 2A passed, whose 2B answered without a product name, and
\* which has returned its record.
C1_Witness ==
    \E c \in Calls :
        /\ Done(c)
        /\ pass2_result[c].kind = "gate"
        /\ pass2_result[c].pass2b_executed
        /\ pass2_result[c].ai_decision = "SKIP"

RequiredPresence2B == {"has_ingredients_section", "has_report_number_label", "has_product_name"}

\* run_pass2_gate is about to return and every call it made succeeded.
Pass2GateReturns(c) == pc[c] = "pass2_ret" /\ locals[c].failed = "none"

\* C2: run_pass2_gate returns READ if and only if every 2A check passed, the
\* 2B call was made and the three required-presence flags of 2B are true; in
\* every other case in which the calls made succeeded it returns SKIP with
\* ai_suitability UNSUITABLE and quality_gate_pass false.  The decision is a
\* function of these alone, so has_nutrition_section never influences it.
C2_GateDecision ==
    \A c \in Calls :
        Pass2GateReturns(c) =>
            LET read == /\ \A k \in CheckKeys2A : locals[c].checks[k]
                        /\ "2b" \in made[c]
                        /\ \A k \in RequiredPresence2B : bool(locals[c].parsed_pass2b[k])
            IN  /\ pass2_result[c].ai_decision = "READ" <=> read
                /\ read => /\ pass2_result[c].quality_gate_pass
                           /\ pass2_result[c].ai_suitability = "SUITABLE"
                /\ ~read => /\ pass2_result[c].ai_decision = "SKIP"
                            /\ pass2_result[c].ai_suitability = "UNSUITABLE"
                            /\ ~pass2_result[c].quality_gate_pass

\* The gate returns READ for a label on which 2B saw no nutrition section.
C2_Witness ==
    \E c \in Calls :
        /\ Pass2GateReturns(c)
        /\ pass2_result[c].ai_decision = "READ"
        /\ locals[c].parsed_pass2b["has_nutrition_section"] = "F"

\* C3: every record returned by analyze with quality_gate_pass true has a
\* non-null itemMnftrRptNo, and every record returned with a null
\* itemMnftrRptNo has ai_decision SKIP and ai_suitability UNSUITABLE.
C3_AcceptedHasReportNumber ==
    \A c \in Calls :
        Done(c) =>
            /\ result[c].quality_gate_pass => result[c].itemMnftrRptNo # Null
            /\ result[c].itemMnftrRptNo = Null =>
                 /\ result[c].ai_decision = "SKIP"
                 /\ result[c].ai_suitability = "UNSUITABLE"

\* Pass4 normalised an extraction whose report number did not survive.
C3_Witness ==
    \E c \in Calls :
        /\ Done(c)
        /\ result[c].kind = "pass4"
        /\ pass3_result[c].product_report_number # Null
        /\ result[c].itemMnftrRptNo = Null

\* C4: with strict_mode true, every record returned by run_pass4_normalize
\* whose itemMnftrRptNo is null also has ingredients_text,
\* product_name_in_image and nutrition_text null, whether the report number
\* failed to resolve or was rejected afterwards by the placeholder check.
C4_StrictNoPartialRecord ==
    \A c \in Calls :
        (Done(c) /\ cfg.strict_mode /\ Pass2Returned(c) /\ result[c].itemMnftrRptNo = Null) =>
            /\ result[c].ingredients_text = Null
            /\ result[c].product_name_in_image = Null
            /\ result[c].nutrition_text = Null

\* The shape built by _error_result, as far as the callers rely on it.
ErrorShape(r) ==
    /\ r.ai_decision = "SKIP"
    /\ r.quality_gate_pass = FALSE
    /\ r.quality_score = 0
    /\ r.quality_fail_reasons = <<"runtime_error:RuntimeError">>
    /\ Len(r.note) = 2
    /\ r.note = r.ai_decision_reason
    /\ r.source_model = "model"

\* A stage of call c failed: the image fetch, Pass2 or Pass3.
StageFailed(c) ==
    \/ ~Pass2Returned(c) /\ result[c].kind = "error"
    \/ pass2_result[c].kind = "error"
    \/ pass3_result[c].kind = "pass3_error"

\* C5: analyze always returns a result record: no exception escapes
\* analyze, whatever the outcome of the fetch and of the model calls and
\* whatever the types of the fields of the model JSON, and a failure of the
\* image fetch, of Pass2 or of Pass3 is reported in the shape built by
\* _error_result.
C5_AlwaysReturnsRecord ==
    \A c \in Calls :
        /\ pc[c] # "raised"
        /\ (Done(c) /\ StageFailed(c)) => ErrorShape(result[c])

\* C6: with two analyze calls running concurrently on one analyzer, each
\* call's Pass3 runs the nutrition track if and only if that call's own
\* Pass2 result had has_nutrition_section true.
C6_CallsIndependent ==
    \A c \in Calls :
        locals[c].kind = "pass3" =>
            locals[c].include_nutrition = pass2_result[c].has_nutrition_section

\* The errors call c's current retry loop has met that carry no transient
\* signature.
NonTransientSeen(c) == {t \in seen[c] : ~retryable(ErrorByText(t))}

\* C7: for every remote model call (2A, 2B, Pass3 ingredients, Pass3
\* nutrition), an error without a transient signature is reported as a
\* failure at once: the loop has ended, and when it met no other error it
\* made exactly one attempt and slept not at all.
C7_NonTransientFailsAtOnce ==
    \A c \in Calls :
        NonTransientSeen(c) # {} =>
            /\ pc[c] \in {"pass2_ret", "pass3_ret"}
            /\ NonTransientSeen(c) = seen[c] => nCalls[c] = 1 /\ nSleeps[c] = 0

\* _call_pass3_with_retry has raised for call c.
Pass3Raised(c) == pc[c] = "pass3_ret" /\ locals[c].failed # "none"

\* C8: when every error of a Pass3 retry loop is transient and a rate
\* limit is among them (in particular when every call is rate limited),
\* _call_pass3_with_retry raises after exactly
\* max(model_retries + 1, pass3_retry_on_429_max_attempts) attempts, and
\* run_pass3_extract returns an error record.
C8_RateLimitCeiling ==
    \A c \in Calls :
        ( /\ Pass3Raised(c)
          /\ NonTransientSeen(c) = {}
          /\ \E t \in seen[c] : is_429(ErrorByText(t)) ) =>
            /\ nCalls[c] = Max(cfg.model_retries + 1, cfg.pass3_retry_on_429_max_attempts)
            /\ pass3_result[c].kind = "pass3_error"
            /\ pass3_result[c].error # ""

\* Every call of the ingredients track was rate limited, with a generic
\* budget of one attempt and a rate-limit ceiling above it.
C8_Witness ==
    \E c \in Calls :
        /\ Pass3Raised(c)
        /\ locals[c].failed = "ing"
        /\ \A t \in seen[c] : is_429(ErrorByText(t))
        /\ cfg.model_retries = 0
        /\ nCalls[c] > 1

\* C9: if the nutrition track fails after the ingredients track succeeded,
\* run_pass3_extract still reports success for the ingredients fields: no
\* error, the five fields of the ingredients track, nutrition_text null.
C9_NutritionFailureKeepsIngredients ==
    \A c \in Calls :
        (pc[c] = "pass3_ret" /\ locals[c].failed = "nut") =>
            /\ pass3_result[c].error = ""
            /\ pass3_result[c].product_report_number = locals[c].parsed_ing.product_report_number
            /\ pass3_result[c].ingredients_text = locals[c].parsed_ing.ingredients_text
            /\ pass3_result[c].allergen_text = locals[c].parsed_ing.allergen_text
            /\ pass3_result[c].product_name_in_image = locals[c].parsed_ing.product_name_in_image
            /\ pass3_result[c].full_text = locals[c].parsed_ing.full_text
            /\ pass3_result[c].nutrition_text = Null

\* C10: in analyze the nutrition-track call is made if and only if Pass2's
\* has_nutrition_section was true and the ingredients-track call has
\* succeeded; if the ingredients track fails no nutrition call is made and
\* the pass returns an error record; when the flag is false no nutrition
\* call is made, nutrition_text is null, nutrition_complete is false and the
\* raw text carries (skipped_by_pass2_no_nutrition).
C10_NutritionCallIffFlag ==
    \A c \in Calls :
        /\ "nut" \in made[c] => pass2_result[c].has_nutrition_section
        /\ (locals[c].kind = "pass3" /\ "nut" \in made[c]) =>
             "ing" \in made[c] /\ locals[c].failed # "ing"
        /\ pc[c] = "pass3_ret" =>
             /\ (pass2_result[c].has_nutrition_section /\ locals[c].failed # "ing")
                  => "nut" \in made[c]
             /\ locals[c].failed = "ing" => pass3_result[c].kind = "pass3_error"
             /\ (~pass2_result[c].has_nutrition_section /\ locals[c].failed = "none") =>
                  /\ pass3_result[c].nutrition_text = Null
                  /\ pass3_result[c].nutrition_complete = FALSE
                  /\ pass3_result[c].raw_nutrition_section = "(skipped_by_pass2_no_nutrition)"

Pass2BSkipMarker == "pass2b_skipped_by_pass2a_fail"

InSeq(x, seq) == \E i \in 1..Len(seq) : seq[i] = x

\* C11: in run_pass2_gate the 2B call is made only after the 2A call has
\* succeeded and every 2A check passed; when any 2A check fails no 2B call is
\* made, the fail list contains pass2b_skipped_by_pass2a_fail,
\* pass2b_executed is false and the four 2B presence flags are false; when 2B
\* is invoked the marker is never in the fail list.
C11_Pass2BOnlyAfter2A ==
    \A c \in Calls :
        /\ "2b" \in made[c] => "2a" \in made[c]
        /\ locals[c].kind = "pass2" =>
             /\ "2b" \in made[c] =>
                  /\ locals[c].failed # "2a"
                  /\ \A k \in CheckKeys2A : locals[c].checks[k]
             /\ (\E k \in CheckKeys2A : ~locals[c].checks[k]) => "2b" \notin made[c]
        /\ (Pass2GateReturns(c) /\ \E k \in CheckKeys2A : ~locals[c].checks[k]) =>
             /\ InSeq(Pass2BSkipMarker, pass2_result[c].fail_checks)
             /\ InSeq(Pass2BSkipMarker, pass2_result[c].quality_fail_reasons)
             /\ ~pass2_result[c].pass2b_executed
             /\ ~pass2_result[c].has_ingredients_section
             /\ ~pass2_result[c].has_report_number_label
             /\ ~pass2_result[c].has_product_name
             /\ ~pass2_result[c].has_nutrition_section
        /\ (pass2_result[c].kind = "gate" /\ "2b" \in made[c]) =>
             /\ ~InSeq(Pass2BSkipMarker, pass2_result[c].fail_checks)
             /\ ~InSeq(Pass2BSkipMarker, pass2_result[c].quality_fail_reasons)
             /\ pass2_result[c].pass2b_executed

\* The gate returns after a 2A answer that failed a check: 2A was called, 2B
\* was not.
C11_Witness ==
    \E c \in Calls :
        /\ Pass2GateReturns(c)
        /\ \E k \in CheckKeys2A : ~locals[c].checks[k]
        /\ "2a" \in made[c]
        /\ "2b" \notin made[c]
        /\ pass2_result[c].ai_decision = "SKIP"

AllDigits(s) == \A i \in 1..Len(s) : s[i] \in Digits

\* C12: every non-null itemMnftrRptNo of a record analyze returns consists
\* only of digits and has between min_report_digits and max_report_digits
\* digits, for every model output, full text and target hint; and whenever
\* quality_gate_pass is true, report_number_validation.is_valid is true.
C12_ReportNumberInRange ==
    \A c \in Calls :
        Done(c) =>
            /\ ~IsNone(result[c].itemMnftrRptNo) =>
                 /\ AllDigits(result[c].itemMnftrRptNo.s)
                 /\ Len(result[c].itemMnftrRptNo.s) >= min_report_digits
                 /\ Len(result[c].itemMnftrRptNo.s) <= max_report_digits
            /\ (result[c].kind = "pass4" /\ result[c].quality_gate_pass) =>
                 result[c].report_number_valid

\* _resolve_report_no has returned a value for the inputs kept in locals.
Resolved(c) == pc[c] = "resolved"

\* The digits of a value, when they are between min_report_digits and max
\* digits long; the empty sequence otherwise.
UsableDigits(v, max) ==
    IF IsNone(v) \/ v.t # "str" THEN <<>>
    ELSE IF Len(OnlyDigits(v.s)) \in min_report_digits..max THEN OnlyDigits(v.s) ELSE <<>>

\* The first bare digit run of plausible length in the transcript.
Backfilled(c) ==
    LET hit == _extract_report_no_from_text(locals[c].full_text, min_report_digits, max_report_digits)
    IN  IF Raises(hit) THEN <<>> ELSE UsableDigits(hit, max_report_digits)

\* C13: _resolve_report_no returns the normalized target whenever a target
\* hint is supplied and the digits of the model's report number (between
\* min_report_digits and 24 digits long) differ from the normalized target
\* and contain it as a contiguous substring; the same correction is applied
\* to a number backfilled from the full text when the model gave no usable
\* number.
C13_TargetContainedCorrects ==
    \A c \in Calls :
        Resolved(c) =>
            LET model_digits == UsableDigits(locals[c].model_report_no, wide_max_digits)
                target_digits == UsableDigits(locals[c].target_item_rpt_no, wide_max_digits)
                backfilled == Backfilled(c)
            IN  /\ (/\ target_digits # <<>>
                    /\ model_digits # <<>>
                    /\ model_digits # target_digits
                    /\ Contains(model_digits, target_digits))
                       => result[c].value = Str(target_digits)
                /\ (/\ target_digits # <<>>
                    /\ model_digits = <<>>
                    /\ backfilled # <<>>
                    /\ backfilled # target_digits
                    /\ Contains(backfilled, target_digits))
                       => result[c].value = Str(target_digits)

\* The model gave no number, the transcript holds twelve digits that contain
\* the ten of the target, and the call has returned.
C13_Witness ==
    \E c \in Calls :
        /\ Resolved(c)
        /\ locals[c].model_report_no = Null
        /\ locals[c].full_text = Str(TextWithTarget)
        /\ locals[c].target_item_rpt_no = Str(RptFormatted)
        /\ result[c].value = Str(RptValid)

\* _resolve_report_no has returned for the extracted number "12034567891234",
\* the target hint "1234567891234" and a transcript holding no number.
OcrExample(c) ==
    /\ Resolved(c)
    /\ locals[c].model_report_no = Str(RptOcr)
    /\ locals[c].target_item_rpt_no = Str(TargetOcr)
    /\ locals[c].full_text \in {Null, Str(TextNoNumber)}

\* C14: given the extracted report number "12034567891234" and the target
\* hint "1234567891234" (default digit bounds, no usable full text),
\* _resolve_report_no returns the target "1234567891234".
C14_ExampleReturnsTarget ==
    \A c \in Calls : OcrExample(c) => result[c].value = Str(TargetOcr)

\* C14 as amended: for that extracted number and target hint
\* _resolve_report_no returns the extracted number "12034567891234"
\* unchanged, because the target is not a contiguous substring of it.
C14_ExampleKeepsExtraction ==
    \A c \in Calls :
        OcrExample(c) =>
            /\ ~Contains(RptOcr, TargetOcr)
            /\ result[c].value = Str(RptOcr)

\* The call of the example has returned, with no transcript.
C14_Witness ==
    \E c \in Calls : OcrExample(c) /\ locals[c].full_text = Null

\* The normalized target occurs in a digit string read from the image: it
\* equals or is a substring of the digits of the model's report number or
\* of a digit run of the transcript.
TargetOccurs(c, target_digits) ==
    /\ target_digits # <<>>
    /\ \/ /\ ~IsNone(locals[c].model_report_no)
          /\ Contains(OnlyDigits(locals[c].model_report_no.s), target_digits)
       \/ /\ locals[c].full_text.t = "str"
          /\ Contains(locals[c].full_text.s, target_digits)

\* C15: the target hint is never an authority override: _resolve_report_no
\* returns the normalized target only when the target equals or is a
\* substring of a digit string read from the image; for every other input
\* the result is the result with no target hint, so a target that does not
\* occur in the extraction never appears in the output.
C15_TargetNeverOverrides ==
    \A c \in Calls :
        Resolved(c) =>
            LET target_digits == UsableDigits(locals[c].target_item_rpt_no, wide_max_digits)
            IN  /\ (target_digits # <<>> /\ result[c].value = Str(target_digits))
                     => TargetOccurs(c, target_digits)
                /\ ~TargetOccurs(c, target_digits) =>
                     result[c].value =
                         _resolve_report_no(locals[c].model_report_no, locals[c].full_text, Null)

\* A call with a valid model number and a target hint that occurs nowhere in
\* the extraction has returned the model number.
C15_Witness ==
    \E c \in Calls :
        /\ Resolved(c)
        /\ locals[c].model_report_no = Str(RptValid)
        /\ locals[c].full_text = Str(TextWithNumber)
        /\ locals[c].target_item_rpt_no = Str(TargetOcr)
        /\ result[c].value = Str(RptValid)

\* run_pass4_normalize took the normal path for the call and no report
\* number resolved (line 206 appended missing_report_number).
NoReportNumberResolved(c) ==
    /\ Done(c)
    /\ result[c].kind = "pass4"
    /\ InSeq("missing_report_number", result[c].quality_fail_reasons)

\* C16: with strict_mode = true, when no report number resolves for a Pass3
\* result, the record run_pass4_normalize returns has ingredients_text,
\* allergen_text, product_name_in_image and nutrition_text null and the four
\* completeness flags false, even if Pass3 extracted each of them; with
\* strict_mode = false the individually valid fields are kept.
C16_StrictCascade ==
    \A c \in Calls :
        NoReportNumberResolved(c) =>
            /\ result[c].itemMnftrRptNo = Null
            /\ cfg.strict_mode =>
                 /\ result[c].ingredients_text = Null
                 /\ result[c].allergen_text = Null
                 /\ result[c].product_name_in_image = Null
                 /\ result[c].nutrition_text = Null
                 /\ result[c].ingredients_complete = "False"
                 /\ result[c].report_number_complete = "False"
                 /\ result[c].product_name_complete = "False"
                 /\ result[c].nutrition_complete = "False"
            /\ ~cfg.strict_mode =>
                 /\ pass3_result[c].ingredients_text = Str(IngGood)
                      => result[c].ingredients_text = Str(IngGood)
                 /\ pass3_result[c].product_name_in_image = Str(NameGood)
                      => result[c].product_name_in_image = Str(NameGood)
                 /\ pass3_result[c].allergen_text = Str(IngShort)
                      => result[c].allergen_text = Str(IngShort)
                 /\ pass3_result[c].nutrition_text = Str(NutGood)
                      => result[c].nutrition_text = Str(NutGood)

\* In strict mode a record is returned without a report number although
\* Pass3 read the ingredients, the product name and the nutrition text.
C16_Witness ==
    \E c \in Calls :
        /\ NoReportNumberResolved(c)
        /\ cfg.strict_mode
        /\ pass3_result[c].ingredients_text = Str(IngGood)
        /\ pass3_result[c].product_name_in_image = Str(NameGood)
        /\ pass3_result[c].nutrition_text = Str(NutGood)
        /\ result[c].ingredients_text = Null

\* A Pass2 sub-call of call c has raised out of its retry loop.
Pass2Raised(c) == pc[c] = "pass2_ret" /\ locals[c].failed # "none"

\* A Pass4 structuring call of call c failed and the record is returned.
Pass4Failed(c) == Done(c) /\ result[c].kind = "pass4" /\ result[c].pass4_ai_error # ""

\* C17: a transient failure of any remote model call of the pipeline, the
\* Pass4 structuring calls included, is retried with backoff up to the
\* pass's retry budget, and only the exhaustion of that budget is reported
\* as a failure of the call: a call that met only transient errors and is
\* reported failed has made model_retries + 1 attempts (the rate-limit
\* ceiling in Pass3 when a rate limit was met), with a sleep between
\* every two of them.
C17_TransientRetriedToBudget ==
    \A c \in Calls :
        /\ (Pass2Raised(c) /\ NonTransientSeen(c) = {}) =>
             /\ nCalls[c] = cfg.model_retries + 1
             /\ nSleeps[c] = nCalls[c] - 1
        /\ (Pass3Raised(c) /\ NonTransientSeen(c) = {}) =>
             /\ nCalls[c] = max_attempts[c]
             /\ nCalls[c] >= cfg.model_retries + 1
             /\ nSleeps[c] = nCalls[c] - 1
        /\ (Pass4Failed(c) /\ retryable(ErrorByText(result[c].pass4_ai_error))) =>
             /\ nCalls[c] = cfg.model_retries + 1
             /\ nSleeps[c] = nCalls[c] - 1

\* C18: when a Pass2 sub-call (2A or 2B) fails on every one of its
\* model_retries + 1 attempts, run_pass2_gate returns an error result and
\* not a gate SKIP computed from quality checks: quality_score is 0,
\* quality_fail_reasons is a single runtime_error code, ai_decision_reason
\* contains the last error text, and when 2B is the failing call the raw
\* model text of 2A is carried; the record analyze then returns keeps that
\* runtime_error reason and error text.
C18_Pass2ExhaustionIsError ==
    \A c \in Calls :
        /\ (Pass2Raised(c) /\ nCalls[c] = cfg.model_retries + 1) =>
             /\ pass2_result[c].kind = "error"
             /\ pass2_result[c].ai_decision = "SKIP"
             /\ pass2_result[c].quality_score = 0
             /\ pass2_result[c].quality_fail_reasons = <<"runtime_error:RuntimeError">>
             /\ InSeq(last_error[c], pass2_result[c].ai_decision_reason)
             /\ last_error[c] \in seen[c]
             /\ locals[c].failed = "2b" => pass2_result[c].raw_model_text = "raw_text_pass2a"
        /\ (Done(c) /\ pass2_result[c].kind = "error") =>
             /\ result[c].kind = "pass2_skip"
             /\ result[c].quality_fail_reasons = <<"runtime_error:RuntimeError">>
             /\ result[c].ai_decision_reason = pass2_result[c].ai_decision_reason
             /\ result[c].note = pass2_result[c].note
             /\ result[c].quality_score = 0
             /\ result[c].raw_model_text = pass2_result[c].raw_model_text

\* With a budget of more than one attempt, 2A passed and every attempt of
\* 2B failed.
C18_Witness ==
    \E c \in Calls :
        /\ Pass2Raised(c)
        /\ locals[c].failed = "2b"
        /\ cfg.model_retries >= 1
        /\ nCalls[c] = cfg.model_retries + 1
        /\ pass2_result[c].raw_model_text = "raw_text_pass2a"

\* The three fields a structuring call needs, as the record holds them after
\* cleaning and placeholder rejection.
RequiredFieldsPresent(rec) ==
    /\ rec.itemMnftrRptNo # Null
    /\ rec.ingredients_text # Null
    /\ rec.product_name_in_image # Null

\* C19: run_pass4_normalize makes a Pass4 structuring call only when, after
\* cleaning and placeholder rejection, the report number, the ingredient
\* text and the product name are all non-null; a missing nutrition text
\* never prevents the ingredient structuring call; the nutrition
\* structuring call is made only after the ingredient structuring call
\* succeeded and only when nutrition text is non-null.
C19_StructuringCallGuard ==
    \A c \in Calls :
        /\ (Done(c) /\ "p4ing" \in made[c]) =>
             result[c].kind = "pass4" /\ RequiredFieldsPresent(result[c])
        /\ (Done(c) /\ result[c].kind = "pass4" /\ RequiredFieldsPresent(result[c])) =>
             "p4ing" \in made[c]
        /\ pc[c] = "pass4_nut" =>
             /\ "p4ing" \in made[c]
             /\ RequiredFieldsPresent(locals[c].rec)
             /\ locals[c].rec.pass4_ai_error = ""
             /\ locals[c].rec.ingredient_items_reason = "pass4_ingredients_structured"
             /\ locals[c].rec.nutrition_text # Null
        /\ "p4nut" \in made[c] =>
             /\ "p4ing" \in made[c]
             /\ Done(c)
             /\ result[c].nutrition_text # Null
        /\ (Done(c) /\ "p4ing" \in made[c] /\ "p4nut" \notin made[c]) =>
             result[c].nutrition_text = Null \/ result[c].pass4_ai_error # ""

\* The ingredient structuring call was made, and succeeded, for a record
\* without nutrition text; no nutrition structuring call followed.
C19_Witness ==
    \E c \in Calls :
        /\ Done(c)
        /\ result[c].kind = "pass4"
        /\ result[c].nutrition_text = Null
        /\ "p4ing" \in made[c]
        /\ "p4nut" \notin made[c]
        /\ result[c].pass4_ai_error = ""
        /\ result[c].ingredient_items # <<>>

\* C20: whenever a Pass4 structuring call fails (pass4_ai_error is set in
\* the returned record), both structured lists ingredient_items and
\* nutrition_items of that record are empty and ingredient_items_reason
\* records the failure, whichever of the two structuring calls
\* (ingredients or nutrition) was the one that failed.
C20_FailedStructuringEmptiesLists ==
    \A c \in Calls :
        Pass4Failed(c) =>
            /\ result[c].ingredient_items = <<>>
            /\ result[c].nutrition_items = <<>>
            /\ result[c].ingredient_items_reason =
                   "pass4_structuring_failed:" \o result[c].pass4_ai_error

\* The flat fields of a record of run_pass4_normalize.
FlatFields(rec) ==
    <<rec.itemMnftrRptNo, rec.ingredients_text, rec.allergen_text, rec.nutrition_text,
      rec.product_name_in_image, rec.quality_gate_pass, rec.ai_decision, rec.ai_suitability,
      rec.quality_score, rec.quality_fail_reasons>>

\* A step of call c that is a structuring call of run_pass4_normalize.
StructuringStep(c) == pc[c] \in {"pass4_ing", "pass4_nut"} /\ pc'[c] # pc[c]

\* C21: a failure of a Pass4 structuring call leaves the flat record
\* unchanged: whether a structuring call succeeds or fails, the record
\* carried on or returned has the flat fields (itemMnftrRptNo,
\* ingredients_text, allergen_text, nutrition_text, product_name_in_image,
\* quality_gate_pass, ai_decision, ai_suitability, quality_score,
\* quality_fail_reasons) computed before the call, so the failing and the
\* succeeding outcome on the same inputs agree on them.
C21_StructuringFailureKeepsFlatRecord ==
    [][\A c \in Calls :
          StructuringStep(c) =>
              /\ pc'[c] = "done" => FlatFields(result'[c]) = FlatFields(locals[c].rec)
              /\ pc'[c] = "pass4_nut" => FlatFields(locals'[c].rec) = FlatFields(locals[c].rec)]_vars

\* The nutrition structuring call failed for a record that was accepted.
C21_Witness ==
    \E c \in Calls :
        /\ Pass4Failed(c)
        /\ "p4nut" \in made[c]
        /\ result[c].quality_gate_pass
        /\ result[c].ai_decision = "READ"
        /\ result[c].quality_fail_reasons = <<>>

\* The codes run_pass1_precheck can give a failed check.
PrecheckCodes ==
    {"empty_image_bytes", "mime_signature_mismatch", "unsupported_image_format:unknown",
     "unsupported_image_format:image/bmp", "unsupported_image_format:application/octet-stream"}

\* Every entry of the list is "precheck:" followed by a code.
PrecheckPrefixed(reasons) ==
    \A i \in 1..Len(reasons) : \E code \in PrecheckCodes : reasons[i] = "precheck:" \o code

\* The failed checks a list of precheck fail reasons names.
FailedChecks(reasons) ==
    [i \in 1..Len(reasons) |-> CHOOSE code \in PrecheckCodes : reasons[i] = "precheck:" \o code]

\* C22: Pass1 never invokes the model and never raises: on success it
\* returns a pass-through record with precheck_pass true and ai_decision
\* READ; on failure analyze returns, without making any model call, a
\* terminal record with ai_decision SKIP, quality_gate_pass false, every
\* quality_fail_reasons entry prefixed precheck:, and an ai_decision_reason
\* that lists the failed checks followed by the URL when it is known.
C22_PrecheckTerminalSkip ==
    \A c \in Calls :
        /\ pc[c] \in {"idle", "decode", "download", "pass1"} => made[c] = {}
        /\ pc[c] = "pass2a" => made[c] \subseteq {"2a"}
        /\ pc[c] = "raised" => "2a" \in made[c]
        /\ pc[c] = "pass1" =>
             LET pass1_result == run_pass1_precheck(image[c], ImageUrl)
             IN  pass1_result.precheck_pass =>
                     /\ pass1_result.ai_decision = "READ"
                     /\ pass1_result.quality_fail_reasons = <<>>
        /\ (Done(c) /\ result[c].kind = "precheck") =>
             /\ made[c] = {}
             /\ ~result[c].precheck_pass
             /\ result[c].ai_decision = "SKIP"
             /\ ~result[c].quality_gate_pass
             /\ result[c].quality_fail_reasons # <<>>
             /\ PrecheckPrefixed(result[c].quality_fail_reasons)
             /\ result[c].ai_decision_reason =
                    FailedChecks(result[c].quality_fail_reasons) \o <<"url=" \o ImageUrl>>
        /\ (Done(c) /\ made[c] = {}) => result[c].kind \in {"precheck", "error"}

\* A PNG-declared image with JPEG bytes was rejected by the precheck.
C22_Witness ==
    \E c \in Calls :
        /\ Done(c)
        /\ result[c].kind = "precheck"
        /\ result[c].quality_fail_reasons = <<"precheck:mime_signature_mismatch">>
        /\ made[c] = {}

\* The media type a declared MIME type names: case and surrounding blanks
\* do not matter, and image/jpg is read as image/jpeg.
DeclaredType(mime_type) ==
    IF mime_type \in {"image/png", " IMAGE/PNG "} THEN "image/png"
    ELSE IF mime_type \in {"image/jpeg", "image/jpg"} THEN "image/jpeg"
    ELSE mime_type

\* The byte signature of each supported type.
SignatureOfType ==
    [t \in {"image/png", "image/jpeg", "image/gif", "image/webp"} |->
        IF t = "image/png" THEN "png"
        ELSE IF t = "image/jpeg" THEN "jpeg"
        ELSE IF t = "image/gif" THEN "gif" ELSE "webp"]

Prechecked(c) == pc[c] = "prechecked"

\* C23: run_pass1_precheck returns precheck_pass = true if and only if the
\* declared MIME type (after mapping image/jpg to image/jpeg) is one of
\* image/png, image/jpeg, image/gif, image/webp, the bytes are non-empty and
\* the byte signature matches the declared type; an image declared
\* image/png whose bytes start with the JPEG signature fails with the
\* reason mime_signature_mismatch.
C23_PrecheckPassIff ==
    \A c \in Calls :
        Prechecked(c) =>
            /\ result[c].precheck_pass <=>
                   /\ DeclaredType(image[c].mime) \in DOMAIN SignatureOfType
                   /\ ~image[c].empty
                   /\ image[c].sig = SignatureOfType[DeclaredType(image[c].mime)]
            /\ (image[c].mime = "image/png" /\ image[c].sig = "jpeg") =>
                   /\ ~result[c].precheck_pass
                   /\ result[c].quality_fail_reasons = <<"precheck:mime_signature_mismatch">>

\* The precheck ran on an image declared image/png with JPEG bytes.
C23_Witness ==
    \E c \in Calls :
        /\ Prechecked(c)
        /\ image[c].mime = "image/png"
        /\ image[c].sig = "jpeg"
        /\ ~result[c].precheck_pass

\* The fetch of call c failed, and its last GET ended in the error named.
FetchFailedOn(c, error) ==
    /\ Done(c)
    /\ result[c].kind = "error"
    /\ made[c] = {}
    /\ last_error[c] = error

\* C24: in _download_image an HTTP response with status >= 400 that is not
\* in the retryable set {408, 425, 429, 500, 502, 503, 504} makes the fetch
\* fail immediately: no GET and no backoff sleep follows it, so a fetch whose
\* first answer is such a status issues exactly one GET; only statuses in
\* the retryable set are retried, up to download_retries retries with a
\* sleep before each.
C24_NonRetryableStatusFailsAtOnce ==
    \A c \in Calls :
        /\ pc[c] = "download" => last_error[c] # "image download failed: http=404"
        /\ FetchFailedOn(c, "image download failed: http=404") => nSleeps[c] = nCalls[c] - 1
        /\ FetchFailedOn(c, "image download failed: http=503") =>
               nCalls[c] = download_retries + 1 /\ nSleeps[c] = download_retries

\* C25: every record returned by analyze with quality_gate_pass = false has
\* a non-empty quality_fail_reasons list, whichever stage rejected it (fetch
\* error, precheck, Pass2 gate, Pass2 or Pass3 error, missing report number,
\* placeholder rejection); and every record with quality_gate_pass = true
\* has an empty quality_fail_reasons list.
C25_FailReasonsDocumentRejection ==
    \A c \in Calls :
        Done(c) =>
            /\ ~result[c].quality_gate_pass => result[c].quality_fail_reasons # <<>>
            /\ result[c].quality_gate_pass => result[c].quality_fail_reasons = <<>>

\* One call was rejected by the Pass2 gate.
C25_Witness ==
    \E c \in Calls :
        /\ Done(c)
        /\ result[c].kind = "pass2_skip"
        /\ pass2_result[c].kind # "error"
        /\ ~result[c].quality_gate_pass
        /\ Len(result[c].quality_fail_reasons) >= 2

\* C26: when Pass3 returns an error, the record analyze returns documents
\* that contributing reason in quality_fail_reasons: the
\* pass3_error:<error text> entry that run_pass4_normalize appends is
\* present in the returned list, not only a generic runtime_error code.
C26_Pass3ErrorReasonKept ==
    \A c \in Calls :
        (Done(c) /\ pass3_result[c].kind = "pass3_error") =>
            InSeq("pass3_error:" \o pass3_result[c].error, result[c].quality_fail_reasons)

Finished(c) == pc[c] \in {"done", "raised"}

\* The ingredients-track part of a Pass3 record.
IngredientsPart(p3) ==
    <<p3.product_report_number, p3.ingredients_text, p3.allergen_text,
      p3.product_name_in_image, p3.ingredients_complete>>

\* Calls a and b were given the same image and the same answers by the
\* remote model, as far as both asked: the same outcome of the fetch and of
\* the precheck, the same Pass2 outcome, the same Pass3 error or the same
\* ingredients answer, the same nutrition answer when both asked for it, and
\* the same structuring outcome.
SameAnswers(a, b) ==
    /\ (made[a] = {} \/ made[b] = {}) => result[a] = result[b]
    /\ pass2_result[a] = pass2_result[b]
    /\ pass3_result[a].kind = pass3_result[b].kind
    /\ pass3_result[a].kind = "pass3_error" => pass3_result[a].error = pass3_result[b].error
    /\ pass3_result[a].kind = "pass3" =>
         /\ IngredientsPart(pass3_result[a]) = IngredientsPart(pass3_result[b])
         /\ ("nut" \in made[a] <=> "nut" \in made[b]) => pass3_result[a] = pass3_result[b]
    /\ (result[a].kind = "pass4" /\ result[b].kind = "pass4") =>
         /\ result[a].pass4_ai_error = result[b].pass4_ai_error
         /\ result[a].ingredient_items = result[b].ingredient_items
         /\ result[a].nutrition_items = result[b].nutrition_items

\* C27: analyze is deterministic given its inputs: two analyze calls on the
\* same analyzer, one after the other, with the same image bytes, no target
\* hint and a model that answers identically (failures included) return
\* field-for-field identical records, regardless of what an earlier call
\* left on the instance: the nutrition switch a call's Pass3 reads is the one
\* the call itself wrote from its own Pass2 result.
C27_AnalyzeDeterministic ==
    /\ \A c \in Calls :
           locals[c].kind = "pass3" =>
               locals[c].include_nutrition = pass2_result[c].has_nutrition_section
    /\ (Finished("A") /\ Finished("B") /\ SameAnswers("A", "B")) =>
           /\ pc["A"] = pc["B"]
           /\ result["A"] = result["B"]

\* Both calls, one after the other, returned an accepted record with
\* nutrition text after the same answers.
C27_Witness ==
    /\ Done("A") /\ Done("B")
    /\ SameAnswers("A", "B")
    /\ result["A"].kind = "pass4"
    /\ result["A"].quality_gate_pass
    /\ result["A"].nutrition_text # Null
    /\ "nut" \in made["A"] /\ "nut" \in made["B"]
    /\ flag = "true"

\* The remote operations of one analyze call, in the order of the pipeline.
StageOrder == <<"2a", "2b", "ing", "nut", "p4ing", "p4nut">>

StageRank(stage) == CHOOSE i \in 1..Len(StageOrder) : StageOrder[i] = stage

\* The remote operation call c is about to attempt, by its position; 0 when
\* it is about to fetch the image.
Attempting(c) ==
    IF pc[c] \in {"decode", "download"} THEN 0
    ELSE IF pc[c] = "pass2a" THEN StageRank("2a")
    ELSE IF pc[c] = "pass2b" THEN StageRank("2b")
    ELSE IF pc[c] = "pass3_ing" THEN StageRank("ing")
    ELSE IF pc[c] = "pass3_nut" THEN StageRank("nut")
    ELSE IF pc[c] = "pass4_ing" THEN StageRank("p4ing")
    ELSE StageRank("p4nut")

AtRemoteOperation(c) ==
    pc[c] \in {"decode", "download", "pass2a", "pass2b", "pass3_ing", "pass3_nut",
               "pass4_ing", "pass4_nut"}

\* C28: within one analyze call the remote operations occur in a fixed
\* forward order: the image is fetched before the precheck and never again;
\* every 2A attempt precedes every 2B attempt, every Pass2 attempt every
\* Pass3 ingredients attempt, these every Pass3 nutrition attempt, these the
\* Pass4 ingredient structuring call and then the Pass4 nutrition
\* structuring call: whenever a call is about to attempt an operation, no
\* operation of a later stage has been attempted.
C28_StagesForward ==
    \A c \in Calls :
        /\ AtRemoteOperation(c) => \A stage \in made[c] : StageRank(stage) <= Attempting(c)
        /\ pc[c] = "pass1" => made[c] = {} /\ image[c] # NoImage
        /\ pc[c] \in {"idle", "decode", "download"} => image[c] = NoImage
        /\ made[c] # {} => image[c] = NoImage /\ pc[c] \notin {"idle", "decode", "download", "pass1"}
        /\ "p4nut" \in made[c] => "p4ing" \in made[c]
        /\ "p4ing" \in made[c] => "ing" \in made[c]
        /\ "nut" \in made[c] => "ing" \in made[c]
        /\ "ing" \in made[c] => "2b" \in made[c]
        /\ "2b" \in made[c] => "2a" \in made[c]

\* A call is about to make the Pass4 nutrition structuring call after every
\* earlier remote operation.
C28_Witness ==
    \E c \in Calls :
        /\ pc[c] = "pass4_nut"
        /\ made[c] = {"2a", "2b", "ing", "nut", "p4ing"}

\* The keys of the 2A answer that decide a check: the check's own key and,
\* through the fallbacks of lines 63-146, the keys it is inferred from.
FallbackChain(k) ==
    LET clear == {"is_clear_text", "is_blurry_or_lowres"}
        frame == {"is_full_frame", "is_cropped_or_partial"}
        flat == {"is_flat_undistorted", "is_wrinkled_or_distorted"}
        visible == {"key_fields_fully_visible"} \cup frame
        glare == {"no_glare_on_key_fields", "has_glare_on_key_fields"} \cup clear
        object == {"no_object_occlusion_on_key_fields", "has_object_occlusion_on_key_fields"}
                  \cup visible
    IN  IF k = "is_clear_text" THEN clear
        ELSE IF k = "is_full_frame" THEN frame
        ELSE IF k = "is_flat_undistorted" THEN flat
        ELSE IF k = "has_single_product" THEN {"has_single_product"}
        ELSE IF k = "key_fields_fully_visible" THEN visible
        ELSE IF k = "no_glare_on_key_fields" THEN glare
        ELSE IF k = "no_object_occlusion_on_key_fields" THEN object
        ELSE IF k = "no_any_text_occlusion_on_key_fields"
             THEN {"no_any_text_occlusion_on_key_fields"} \cup object
        ELSE IF k = "no_glare_overlap_on_key_text"
             THEN {"no_glare_overlap_on_key_text", "glare_overlap_on_key_text"} \cup glare
        ELSE IF k = "no_occlusion_overlap_on_key_text"
             THEN {"no_occlusion_overlap_on_key_text", "occlusion_overlap_on_key_text"} \cup object
        ELSE IF k = "no_white_circle_overlay_on_key_fields"
             THEN {"no_white_circle_overlay_on_key_fields"} \cup object
        ELSE {"no_wrinkle_fold_occlusion_on_key_fields"} \cup flat \cup visible

\* The 2A call of c has answered and its checks are computed.
Answered2A(c) == locals[c].kind = "pass2" /\ locals[c].failed # "2a"

\* C29: every 2A quality flag defaults to a conservative false-equivalent
\* value when the model omits it: if the 2A JSON answers neither a flag nor
\* any flag of its fallback chain, that check is counted as failed, so a 2A
\* response that omits a check can never pass that check.
C29_OmittedCheckFails ==
    \A c \in Calls :
        Answered2A(c) =>
            \A k \in CheckKeys2A :
                (\A l \in FallbackChain(k) : isNone(locals[c].parsed_pass2a[l])) =>
                    ~locals[c].checks[k]

\* The failed checks of a fail list: its entries other than the marker of a
\* skipped 2B.
FailedChecks2(fail_checks) == {i \in 1..Len(fail_checks) : fail_checks[i] # Pass2BSkipMarker}

\* The checks that can fail: the 2A checks and the three 2B presence checks.
DistinctChecks == Cardinality(CheckKeys2A) + 3

\* C30: in every Pass2 result built from successful model calls,
\* quality_score = floor(100 x (15 - n) / 15) where n is the number of failed
\* checks in the fail list not counting the pass2b_skipped_by_pass2a_fail
\* marker, and 15 is the number of distinct checks that can fail; the score
\* lies in 0..100 and equals 100 exactly when the decision is READ.
C30_QualityScoreFormula ==
    \A c \in Calls :
        pass2_result[c].kind = "gate" =>
            LET n == Cardinality(FailedChecks2(pass2_result[c].fail_checks)) IN
            /\ DistinctChecks = 15
            /\ n <= DistinctChecks
            /\ pass2_result[c].quality_score = (100 * (DistinctChecks - n)) \div DistinctChecks
            /\ pass2_result[c].quality_score \in 0..100
            /\ pass2_result[c].quality_score = 100 <=> pass2_result[c].ai_decision = "READ"

\* A gate result whose fail list holds the marker and seven failed checks.
C30_Witness ==
    \E c \in Calls :
        /\ pass2_result[c].kind = "gate"
        /\ InSeq(Pass2BSkipMarker, pass2_result[c].fail_checks)
        /\ Len(pass2_result[c].fail_checks) = 8
        /\ pass2_result[c].quality_score = 53

-----------------------------------------------------------------------------
(* C31 *)

\* The call is inside a retry loop of Pass2 and has slept at least once.
SleptInPass2(c) == pc[c] \in {"pass2a", "pass2b"} /\ nSleeps[c] >= 1

\* The error that led to the last sleep of the running loop.
LastError(c) == ErrorByText(last_error[c])

\* C31 (as claimed): in the retry loop of Pass2 (2A and 2B) the delay slept
\* after failed attempt k (0-based) is retry_backoff_sec x (k + 1), multiplied
\* by 2.5 only when the error text carries a rate-limit signature (429,
\* resource_exhausted); a timeout or a 503 sleeps the unmultiplied delay.
C31_RateLimitOnlyMultiplier ==
    \A c \in Calls :
        SleptInPass2(c) =>
            delay[c] * 10 = retry_backoff_sec * attempt[c] *
                                (IF is_429(LastError(c)) THEN 25 ELSE 10)

\* C31 (amended): in the retry loop of Pass2 (2A and 2B) the delay slept
\* after failed attempt k (0-based) is retry_backoff_sec x (k + 1), multiplied
\* by 2.5 when the error text carries any of the transient signatures (429,
\* resource_exhausted, 503, deadline, timeout, temporarily unavailable); only
\* an error with none of them sleeps the unmultiplied delay.
C31_TransientMultiplier ==
    \A c \in Calls :
        SleptInPass2(c) =>
            delay[c] * 10 = retry_backoff_sec * attempt[c] *
                                (IF LastError(c).sigs \cap TransientSignatures # {}
                                 THEN 25 ELSE 10)

\* A 503 after the second attempt of Pass2 was followed by a sleep of
\* 0.8 s x 2 x 2.5 = 4 s.
C31_Witness ==
    \E c \in Calls :
        /\ SleptInPass2(c)
        /\ attempt[c] = 2
        /\ "503" \in LastError(c).sigs
        /\ ~is_429(LastError(c))
        /\ delay[c] = 4000

-----------------------------------------------------------------------------
(* C32 *)

\* The call is inside a retry loop of Pass3 whose model caller has raised
\* nothing but rate-limit errors.
RateLimitedPass3(c) ==
    /\ pc[c] \in {"pass3_ing", "pass3_nut"}
    /\ seen[c] # {}
    /\ \A text \in seen[c] : is_429(ErrorByText(text))

\* The step is a time.sleep of such a loop.
RateLimitSleep(c) == RateLimitedPass3(c)' /\ nSleeps'[c] = nSleeps[c] + 1

\* min(cap, base x 2^attempt) for the attempt that has just failed.
NominalDelay(k) ==
    LET nominal == cfg.pass3_retry_on_429_base_sec * (2 ^ k)
    IN  IF nominal < cfg.pass3_retry_on_429_max_sec
        THEN nominal ELSE cfg.pass3_retry_on_429_max_sec

\* C32 (as claimed): with a model caller that always raises a rate-limit
\* error, the delays slept between successive Pass3 attempts (jitter
\* included) are non-decreasing and never exceed pass3_retry_on_429_max_sec,
\* for every configuration of base and cap and every jitter draw.
C32_DelaysNonDecreasingCapped ==
    [][\A c \in Calls :
          RateLimitSleep(c) =>
              /\ delay'[c] <= cfg.pass3_retry_on_429_max_sec
              /\ nSleeps[c] >= 1 => delay'[c] >= delay[c]]_vars

\* C32 (amended): with a model caller that always raises a rate-limit error,
\* the delay slept after Pass3 attempt k is min(cap, base x 2^k) plus a
\* jitter of 0 to 0.8 s added after the cap is applied; so a delay may exceed
\* the cap by up to 0.8 s and may be up to 0.8 s shorter than the one before,
\* and never more than that.
C32_DelaysWithinJitter ==
    [][\A c \in Calls :
          RateLimitSleep(c) =>
              /\ delay'[c] - NominalDelay(attempt[c]) \in 0..800
              /\ delay'[c] <= cfg.pass3_retry_on_429_max_sec + 800
              /\ nSleeps[c] >= 1 => delay'[c] >= delay[c] - 800]_vars

\* Under the defaults the fifth sleep of a rate-limited Pass3 loop lasted
\* 30.8 s, more than the cap of 30 s.
C32_Witness ==
    \E c \in Calls :
        /\ RateLimitedPass3(c)
        /\ cfg = DefaultConfig
        /\ nSleeps[c] = 5
        /\ delay[c] = 30800
        /\ delay[c] > cfg.pass3_retry_on_429_max_sec

-----------------------------------------------------------------------------
(* C33 *)

\* run_pass4_normalize returned from its normal path.
NormalPath(c) == Done(c) /\ result[c].kind = "pass4"

\* C33: on the normal path of run_pass4_normalize, a Pass3 result whose
\* ingredient text is "AAAA AAAA AAAA" yields ingredients_text null,
\* quality_gate_pass false and the reason
\* ingredients_contains_placeholder_keyword or
\* ingredients_low_token_diversity; a report number of one digit repeated
\* over its full length yields itemMnftrRptNo null, quality_gate_pass false,
\* report_number_validation.is_valid false and the reason
\* report_number_repeated_digits.
C33_PlaceholderRejection ==
    \A c \in Calls :
        NormalPath(c) =>
            /\ pass3_result[c].ingredients_text = Str(IngRepeated) =>
                   /\ result[c].ingredients_text = Null
                   /\ ~result[c].quality_gate_pass
                   /\ \/ InSeq("ingredients_contains_placeholder_keyword",
                               result[c].quality_fail_reasons)
                      \/ InSeq("ingredients_low_token_diversity",
                               result[c].quality_fail_reasons)
            /\ pass3_result[c].product_report_number = Str(RptRepeated) =>
                   /\ result[c].itemMnftrRptNo = Null
                   /\ ~result[c].quality_gate_pass
                   /\ ~result[c].report_number_valid
                   /\ InSeq("report_number_repeated_digits", result[c].quality_fail_reasons)

-----------------------------------------------------------------------------
(* C34 *)

\* _split_allergen_notice has returned for call c.
SplitReturned(c) == pc[c] = "split_done"

\* The parts of a text between its commas and slashes, stripped, the empty
\* ones left out.
CommaSlashTokens(s) ==
    LET parts == SplitOn(s, {",", "/"}, 1, <<>>)
        stripped == [i \in 1..Len(parts) |-> strip(parts[i])]
    IN  {stripped[i] : i \in 1..Len(parts)} \ {<<>>}

\* The token holds one of the two contains-words.
HasContainsWord(token) ==
    \E i \in 1..Len(token) : \E w \in ContainsSuffixes : StartsAt(token, i, w)

\* The words of a token left when the contains-words and the spaces are
\* taken out, split at middle dots.
RemainingWords(token) ==
    LET bare == SelectSeq(RemoveAll(token, ContainsSuffixes, 1), LAMBDA ch : ch # " ")
        words == SplitOn(bare, {"U+00B7"}, 1, <<>>)
    IN  {words[i] : i \in 1..Len(words)} \ {<<>>}

\* The token names allergens only and carries no digit, percent sign or
\* parenthesis.
AllergenOnly(token) ==
    /\ RemainingWords(token) # {}
    /\ RemainingWords(token) \subseteq allergen_set
    /\ \A i \in 1..Len(token) : token[i] \notin Digits \cup {"%", "(", ")"}

-----------------------------------------------------------------------------
(* C35 *)

\* The backfilled run, corrected to the target when it contains the target.
BackfilledCorrected(c) ==
    LET target_digits == UsableDigits(locals[c].target_item_rpt_no, wide_max_digits)
        backfilled == Backfilled(c)
    IN  IF backfilled = <<>> THEN Null
        ELSE IF target_digits # <<>> /\ Contains(backfilled, target_digits)
             THEN Str(target_digits)
             ELSE Str(backfilled)

\* C35: whenever the model's report number does not yield an acceptable
\* number (it is missing, or its digit count is outside
\* min_report_digits..max_report_digits), _resolve_report_no returns the
\* first standalone digit run of min_report_digits..max_report_digits digits
\* of full_text (corrected to the target when it contains the target), and
\* null only when the full text holds no such run.
C35_BackfillFromTranscript ==
    \A c \in Calls :
        (Resolved(c) /\ UsableDigits(locals[c].model_report_no, max_report_digits) = <<>>) =>
            result[c].value = BackfilledCorrected(c)

-----------------------------------------------------------------------------
(* C36 *)

\* run_pass4_normalize has returned a record for call c (analyze calls it
\* whenever Pass2 returned).
Pass4Returned(c) == Done(c) /\ Pass2Returned(c)

\* The three required fields of the record are all non-null.
RecordComplete(rec) ==
    /\ rec.itemMnftrRptNo # Null
    /\ rec.ingredients_text # Null
    /\ rec.product_name_in_image # Null

-----------------------------------------------------------------------------
(* C37 *)

\* C37: in every record returned by analyze, on every path (fetch error,
\* precheck failure, Pass2 SKIP, Pass2 or Pass3 error, Pass4 normal path),
\* the three verdict fields agree: ai_decision is READ if and only if
\* quality_gate_pass is true if and only if ai_suitability is SUITABLE.
C37_VerdictFieldsAgree ==
    \A c \in Calls :
        Done(c) =>
            /\ (result[c].ai_decision = "READ") <=> result[c].quality_gate_pass
            /\ result[c].quality_gate_pass <=> (result[c].ai_suitability = "SUITABLE")

\* Pass2 judged the image suitable and the normal path of Pass4 rejected the
\* record: all three verdict fields were turned.
C37_Witness ==
    \E c \in Calls :
        /\ Done(c)
        /\ result[c].kind = "pass4"
        /\ pass2_result[c].ai_suitability = "SUITABLE"
        /\ pass2_result[c].ai_decision = "READ"
        /\ result[c].ai_suitability = "UNSUITABLE"
        /\ result[c].ai_decision = "SKIP"
        /\ ~result[c].quality_gate_pass

-----------------------------------------------------------------------------
(* C38 *)

\* The parts of a text between its commas and slashes, stripped, in order,
\* the empty ones left out.
CommaSlashTokenSeq(s) ==
    LET parts == SplitOn(s, {",", "/"}, 1, <<>>)
        stripped == [i \in 1..Len(parts) |-> strip(parts[i])]
    IN  SelectSeq(stripped, LAMBDA x : x # <<>>)

\* The text holds no notice marker, no trailing allergen clause and no
\* allergen-only contains-token.
NoAllergenNotice(text) ==
    /\ CutIndex(text) = 0
    /\ TailSearch(text) = 0
    /\ \A token \in CommaSlashTokens(text) : ~(HasContainsWord(token) /\ AllergenOnly(token))

\* C38: when the raw ingredient text holds no allergy-notice marker, no
\* trailing allergen clause and no allergen-only 함유/포함 token,
\* _split_allergen_notice returns a null allergen text and an ingredient text
\* with the same tokens in the same order; and text returned as allergen text
\* is never text that is also kept as an ingredient, whatever the spacing
\* around the separators of the input.
C38_NoNoticeNoAllergenText ==
    \A c \in Calls :
        SplitReturned(c) =>
            LET text == locals[c].text.s
                cleaned == result[c].cleaned
                allergen == result[c].allergen_text
            IN  /\ NoAllergenNotice(text) =>
                       /\ allergen = Null
                       /\ cleaned # Null
                       /\ CommaSlashTokenSeq(cleaned.s) = CommaSlashTokenSeq(text)
                /\ (allergen # Null /\ cleaned # Null) =>
                       CommaSlashTokens(allergen.s) \cap CommaSlashTokens(cleaned.s) = {}

-----------------------------------------------------------------------------
(* C39 *)

\* The call has ended: analyze returned a record or raised.
Terminated(c) == pc[c] \in {"done", "raised"}

\* The running Pass3 loop has met a rate-limit error.
RateLimitSeen(c) == \E text \in seen[c] : is_429(ErrorByText(text))

\* The request the call is about to issue is within the budget of its
\* stage: nCalls counts the requests of the running loop so far.
RequestWithinBudget(c) ==
    /\ pc[c] = "download" => nCalls[c] + 1 <= download_retries + 1
    /\ pc[c] \in {"pass2a", "pass2b"} => nCalls[c] + 1 <= cfg.model_retries + 1
    /\ pc[c] \in {"pass3_ing", "pass3_nut"} =>
           /\ nCalls[c] + 1 <= Max(cfg.model_retries + 1, cfg.pass3_retry_on_429_max_attempts)
           /\ ~RateLimitSeen(c) => nCalls[c] + 1 <= cfg.model_retries + 1
    /\ pc[c] = "pass4_ing" => "p4ing" \notin made[c]
    /\ pc[c] = "pass4_nut" => "p4nut" \notin made[c]

\* The positions of analyze in the order the call passes them; a call only
\* moves forward in this order.
StagesInOrder ==
    <<"idle", "decode", "download", "pass1", "pass2a", "pass2b_enter",
      "pass2b", "pass2_ret", "pass3_enter", "pass3_ing", "pass3_nut_enter",
      "pass3_nut", "pass3_ret", "pass4", "pass4_ing", "pass4_nut", "done">>

StagesLeft(p) ==
    IF p = "raised" THEN 0
    ELSE Len(StagesInOrder) - (CHOOSE i \in 1..Len(StagesInOrder) : StagesInOrder[i] = p)

\* More turns than any retry loop of the call can take.
TurnBudget ==
    Max(download_retries + 1,
        Max(cfg.model_retries + 1, cfg.pass3_retry_on_429_max_attempts))

\* The termination measure of a call: the stages still ahead, then the
\* turns the running loop has left.
Rank(c) == StagesLeft(pc[c]) * (TurnBudget + 1) + (TurnBudget - attempt[c])

\* A call that can take a step.  The step out of "pass4" is the local
\* normalisation, an IF/ELSE chain that covers every case of its inputs and
\* issues no request; the steps of every other position are asked of TLC.
CanStep(c) == pc[c] = "pass4" \/ ENABLED Step(c)

\* C39: every analyze call terminates after a bounded number of remote
\* calls, whatever errors the remote endpoints return: at most
\* download_retries + 1 image GETs, at most model_retries + 1 attempts for
\* each of 2A and 2B, at most
\* max(model_retries + 1, pass3_retry_on_429_max_attempts) attempts for each
\* Pass3 track (at most model_retries + 1 when the track met no rate-limit
\* error), and at most one call for each of the two Pass4 structuring
\* prompts.  Termination: a call that has not ended can always take a step,
\* and every step lowers a measure that is a natural number.
C39_BoundedTermination ==
    /\ [](\A c \in callers :
             /\ RequestWithinBudget(c)
             /\ Rank(c) \in Nat
             /\ Terminated(c) \/ CanStep(c))
    /\ [][\E c \in callers :
             /\ Rank(c)' < Rank(c)
             /\ \A d \in callers \ {c} : Rank(d)' = Rank(d)]_vars

\* A call that used the whole budget of the download, of 2A and 2B and the
\* rate-limit ceiling of the ingredients track is at its last Pass3 attempt.
C39_Witness ==
    \E c \in Calls :
        /\ pc[c] = "pass3_ing"
        /\ RateLimitSeen(c)
        /\ nCalls[c] + 1 = Max(cfg.model_retries + 1, cfg.pass3_retry_on_429_max_attempts)
        /\ nCalls[c] + 1 > cfg.model_retries + 1

-----------------------------------------------------------------------------
(* The worker of the CLI query pipeline: main.py, _analyze_one *)

TriOf(b) == IF b THEN "T" ELSE "F"

\* The dict under the key "quality_flags" of what analyze_pass2 returned:
\* for a gate record the checks of 2A, the presence flags of 2B, pass2a_ok
\* and pass2b_executed (pass2_gate.py lines 240-269; the keys the worker
\* reads are kept); for an error record or a failed precheck eight keys that
\* are all None (core.py lines 820-829, pass1_precheck.py lines 89-98).
quality_flags(p2) ==
    IF p2.kind = "gate"
    THEN [has_ingredients_section |-> TriOf(p2.has_ingredients_section),
          has_report_number_label |-> TriOf(p2.has_report_number_label),
          has_product_name |-> TriOf(p2.has_product_name),
          has_nutrition_section |-> TriOf(p2.has_nutrition_section),
          pass2a_ok |-> TriOf(p2.pass2a_ok),
          pass2b_executed |-> TriOf(p2.pass2b_executed)]
    ELSE [is_real_world_photo |-> "N", is_blurry_or_lowres |-> "N",
          is_wrinkled_or_distorted |-> "N", is_cropped_or_partial |-> "N",
          ingredients_complete |-> "N", report_number_complete |-> "N",
          product_name_complete |-> "N", nutrition_complete |-> "N"]

\* dict.get: None for a key the dict does not hold.
DictGet(d, key) == IF key \in DOMAIN d THEN d[key] ELSE "N"

\* What analyze_pass2 can return (core.py lines 860-868): the record of
\* run_pass2_gate for any 2A and 2B answer, its error record, the error
\* record of a failed download, the record of a failed precheck.
AnalyzePass2Results ==
    { LET fail2a == FailChecks2A(Checks2A(p2a))
      IN  Pass2GateResult(fail2a, IF Pass2AOk(fail2a) THEN p2b ELSE Empty2B) :
          p2a \in Parsed2AInputs, p2b \in Parsed2BInputs }
    \cup { Pass2ErrorResult(e.text, raw) : e \in ModelErrors, raw \in {None, "raw_text_pass2a"} }
    \cup { _error_result("image_download_failed") }
    \cup { run_pass1_precheck(img, ImageUrl) :
             img \in { i \in Payloads : precheck_reasons(i) # <<>> } }

\* The positions in the image list of the images handed to the worker.
WorkerIdx == {0, 1}

\* The worker holds what analyze_pass2 returned for its image.
InitWorker ==
    /\ cfg = DefaultConfig
    /\ callers = {"A"}
    /\ faultsLeft = 0
    /\ flag = "unset"
    /\ pc = [c \in Calls |-> IF c = "A" THEN "worker" ELSE "idle"]
    /\ image = [c \in Calls |-> NoImage]
    /\ attempt = [c \in Calls |-> 0]
    /\ max_attempts = [c \in Calls |-> 0]
    /\ last_error = [c \in Calls |-> None]
    /\ nCalls = [c \in Calls |-> 0]
    /\ nSleeps = [c \in Calls |-> 0]
    /\ delay = [c \in Calls |-> 0]
    /\ seen = [c \in Calls |-> {}]
    /\ made = [c \in Calls |-> {}]
    /\ \E idx \in WorkerIdx, pass2 \in AnalyzePass2Results :
         locals = [c \in Calls |->
                     IF c = "A" THEN [kind |-> "worker", idx |-> idx, pass2 |-> pass2]
                     ELSE NoLocals]
    /\ pass2_result = [c \in Calls |-> NoResult]
    /\ pass3_result = [c \in Calls |-> NoResult]
    /\ result = [c \in Calls |-> NoResult]

\* main.py lines 805-825: the worker reads the gate record and either
\* returns with fail_stage "pass2" or goes on to analyze_pass3.
_analyze_one(c) ==
    /\ pc[c] = "worker"
    /\ LET pass2 == locals[c].pass2
           qf == quality_flags(pass2)
           p2a_ok == bool(DictGet(qf, "pass2a_ok"))
           p2b_ok == bool(DictGet(qf, "pass2b_pass"))
           gate_ok == pass2.quality_gate_pass
           decision == pass2.ai_decision
           pass2_ok == gate_ok /\ p2a_ok /\ p2b_ok /\ decision = "READ"
       IN  /\ result' = [result EXCEPT ![c] =
                           [kind |-> "worker", idx |-> locals[c].idx,
                            p2a_ok |-> p2a_ok, p2b_ok |-> p2b_ok,
                            pass2_ok |-> pass2_ok,
                            fail_stage |-> IF pass2_ok THEN None ELSE "pass2"]]
           /\ pc' = [pc EXCEPT ![c] = IF pass2_ok THEN "worker_pass3" ELSE "worker_done"]
    /\ UNCHANGED <<cfg, callers, faultsLeft, flag, image, attempt, max_attempts,
                   last_error, nCalls, nSleeps, delay, seen, made, locals,
                   pass2_result, pass3_result>>

NextWorker == \E c \in Calls : _analyze_one(c)

SpecWorker == InitWorker /\ [][NextWorker]_vars

(* C40 *)

\* The worker has decided about the gate record of its image.
WorkerDecided(c) == pc[c] \in {"worker_pass3", "worker_done"}

\* The gate record is READ: the gate passed, 2A passed, 2B was executed.
GateIsRead(p2) ==
    /\ p2.kind = "gate"
    /\ p2.ai_decision = "READ"
    /\ p2.quality_gate_pass
    /\ p2.pass2a_ok
    /\ p2.pass2b_executed

\* C40: in the worker of the CLI query pipeline an image whose Pass2 gate
\* record is READ (quality_gate_pass true, pass2a_ok true, 2B executed and
\* passed) is treated as pass2_ok and goes on to analyze_pass3; only an
\* image whose gate record is not READ stops at fail_stage "pass2".
C40_ReadProceedsToPass3 ==
    \A c \in Calls :
        WorkerDecided(c) =>
            /\ GateIsRead(locals[c].pass2) =>
                   result[c].pass2_ok /\ pc[c] = "worker_pass3"
            /\ result[c].fail_stage = "pass2" => ~GateIsRead(locals[c].pass2)

====
